---- MODULE Spec2Model ----
(***************************************************************************)
(* AdsHub (custom_components/ads_twincat/hub.py): the connection and       *)
(* notification manager of the ADS/TwinCAT integration.                    *)
(*                                                                         *)
(* Threads.  Caller threads run read_by_name, write_by_name,               *)
(* add_device_notification and check_connection; each of these takes       *)
(* self._lock, so a caller is either idle or inside the one transport call *)
(* its operation makes, holding the lock.  A job thread runs               *)
(* _try_reconnect on the executor after a reconnection task fired; it      *)
(* takes no lock, so its statements interleave with everything else.  A    *)
(* stopper thread runs shutdown, which takes no lock either.               *)
(*                                                                         *)
(* The transport (pyads.Connection) is external: every call on it either   *)
(* returns or raises pyads.ADSError, chosen nondeterministically.          *)
(*                                                                         *)
(* `last` describes the step just taken (which operation, what it read,    *)
(* how many transport calls it made, what it broadcast to the observers,   *)
(* what it returned, which delay it scheduled); steps that complete        *)
(* nothing set it to NoEvent.                                              *)
(***************************************************************************)
EXTENDS Integers, Sequences, FiniteSets, TLC

VARIABLES
    _hass,                  \* TRUE iff a host scheduler was given (hass is not None)
    _connected,             \* self._connected
    _retry_count,           \* self._retry_count
    _unavailable_logged,    \* self._unavailable_logged
    _reconnect_task,        \* TRUE iff self._reconnect_task holds a task
    pending,                \* number of reconnection tasks created, not yet fired or cancelled
    _connection_callbacks,  \* self._connection_callbacks, a list of observers
    _notification_items,    \* self._notification_items: handle -> NotificationItem
    _lock,                  \* owner of self._lock, or "free"
    pc,                     \* where each thread is
    arg,                    \* arguments and locals of the operation a thread runs: the name given to
                            \* add_device_notification, the item and data of a notification
    ncalls,                 \* transport calls made so far by the operation in progress
    iter,                   \* shutdown's iteration over _notification_items.values()
    last                    \* the step just taken

vars == <<_hass, _connected, _retry_count, _unavailable_logged, _reconnect_task,
          pending, _connection_callbacks, _notification_items, _lock, pc, arg,
          ncalls, iter, last>>

----------------------------------------------------------------------------
(* Bounds of the model *)

\* _try_reconnect fails at most this many times in a row
MaxRetry == 1
\* the same, where only the reconnection loop runs
MaxBackoffRetry == 8
\* reconnection tasks that sleep when a caller schedules one more; the
\* reconnection job adds its own task to these
MaxTasks == 1
\* bytes of a notification's sample
MaxData == 2
\* the same, where only the decoding of samples is looked at
MaxSample == 5
\* dot-separated parts of the Net ID a user enters
MaxParts == 7
\* notifications the transport delivers to one entity
MaxUpdates == 2
\* entities in the options of the config entry when the options flow opens
MaxEntities == 2

Callers == {"c1", "c2"}
Jobs == {"j1"}
Stoppers == {"s1"}
Unloaders == {"s2"}
Dispatchers == {"d1"}
Threads == Callers \cup Jobs \cup Stoppers \cup Unloaders \cup Dispatchers

PlcVars == {"v1", "v2"}
Handles == {1, 2}
Observers == {"o1", "o2"}
\* the observers whose callback raises an exception when it is called
Raising == {"o1"}
\* byte values of the samples: zero, one and the largest
Bytes == {0, 1, 255}
Payloads == UNION {[1..n -> Bytes] : n \in 0..MaxData}
\* byte values where the decoding is looked at: zero, "K", "O", the largest
SampleBytes == {0, 75, 79, 255}
Samples == UNION {[1..n -> SampleBytes] : n \in 0..MaxSample}
\* the types of ADS_TYPEMAP, and LINT, which the hub does not decode
PlcTypes ==
    {"BOOL", "BYTE", "INT", "UINT", "SINT", "USINT", "DINT", "UDINT", "WORD",
     "DWORD", "REAL", "LREAL", "STRING", "TIME", "DATE", "DT", "TOD", "LINT"}

----------------------------------------------------------------------------
(* const.py *)

CONNECTION_RETRY_INTERVAL == <<1, 2, 4, 8, 16, 32, 60>>

----------------------------------------------------------------------------
(* Helpers *)

Min(a, b) == IF a <= b THEN a ELSE b

\* The declared PLC type of each variable the entities use
plc_datatype(name) == IF name = "v1" THEN "BOOL" ELSE "INT"

NotificationItem(hnotify, huser, name, datatype, callback) ==
    [hnotify |-> hnotify, huser |-> huser, name |-> name,
     plc_datatype |-> datatype, callback |-> callback]

NoEvent ==
    [op |-> "none", was |-> FALSE, outcome |-> "none", calls |-> 0,
     sent |-> <<>>, ret |-> "none", delay |-> 0]

Event(op, was, outcome, calls, sent, ret, delay) ==
    [op |-> op, was |-> was, outcome |-> outcome, calls |-> calls,
     sent |-> sent, ret |-> ret, delay |-> delay]

\* A thread is inside a call on self._client
InTransport(t) ==
    pc[t] \in {"read_io", "write_io", "sub_io", "chk_io",
               "rc_open", "rc_probe", "sd_del", "sd_close"}

IterIdle == [todo |-> {}, size |-> 0]

\* the locals of _device_notification_callback when it is not running
NoNotification ==
    [item |-> NotificationItem(0, 0, "none", "none", "none"), data |-> <<>>]

----------------------------------------------------------------------------
(* hub.py: observers *)

\* add_connection_callback: each entity registers its own closure once
add_connection_callback(o) ==
    /\ \A i \in 1..Len(_connection_callbacks) : _connection_callbacks[i] # o
    /\ _connection_callbacks' = Append(_connection_callbacks, o)
    /\ last' = NoEvent
    /\ UNCHANGED <<_hass, _connected, _retry_count, _unavailable_logged,
                   _reconnect_task, pending, _notification_items, _lock, pc,
                   arg, ncalls, iter>>

RemoveFirst(s, o) ==
    LET idx == {i \in 1..Len(s) : s[i] = o}
        k == CHOOSE i \in idx : \A j \in idx : i <= j
    IN  [i \in 1..(Len(s) - 1) |-> IF i < k THEN s[i] ELSE s[i + 1]]

remove_connection_callback(o) ==
    /\ \E i \in 1..Len(_connection_callbacks) : _connection_callbacks[i] = o
    /\ _connection_callbacks' = RemoveFirst(_connection_callbacks, o)
    /\ last' = NoEvent
    /\ UNCHANGED <<_hass, _connected, _retry_count, _unavailable_logged,
                   _reconnect_task, pending, _notification_items, _lock, pc,
                   arg, ncalls, iter>>

\* the loop of _notify_connection_state over `callbacks`: the calls made, in
\* list order; the exception of a callback ends the loop unless it is caught
RECURSIVE fan_out(_, _, _)
fan_out(callbacks, connected, caught) ==
    IF callbacks = <<>>
    THEN <<>>
    ELSE IF Head(callbacks) \in Raising /\ ~caught
         THEN <<<<Head(callbacks), connected>>>>
         ELSE <<<<Head(callbacks), connected>>>>
                 \o fan_out(Tail(callbacks), connected, caught)

\* (mutant) the exception of a callback is not caught
_notify_connection_state_uncaught(connected) ==
    fan_out(_connection_callbacks, connected, FALSE)

\* _notify_connection_state: `except Exception` around every call
_notify_connection_state(connected) ==
    fan_out(_connection_callbacks, connected, TRUE)

----------------------------------------------------------------------------
(* hub.py: scheduling a reconnection *)

\* (mutant) the cap is one entry short of the table's end
retry_index_short(retry_count) == Min(retry_count, Len(CONNECTION_RETRY_INTERVAL) - 2)

retry_index(retry_count) == Min(retry_count, Len(CONNECTION_RETRY_INTERVAL) - 1)

retry_interval(retry_count) == CONNECTION_RETRY_INTERVAL[retry_index(retry_count) + 1]

\* (mutant) the test of the stored task is inverted
ScheduleReturnsEarly_without_task == ~_hass \/ ~_reconnect_task

\* the early return of _schedule_reconnect
ScheduleReturnsEarly == ~_hass \/ _reconnect_task

\* _schedule_reconnect run without interruption: the delay of the task it
\* creates, 0 when it creates none
ScheduledDelay == IF ScheduleReturnsEarly THEN 0 ELSE retry_interval(_retry_count)

_schedule_reconnect ==
    IF ScheduleReturnsEarly
    THEN UNCHANGED <<_reconnect_task, pending>>
    ELSE /\ pending < MaxTasks
         /\ pending' = pending + 1
         /\ _reconnect_task' = TRUE

----------------------------------------------------------------------------
(* hub.py: __init__ *)

AdsHub__init__(hass, open_ok) ==
    /\ _hass = hass
    /\ _connected = open_ok
    /\ _retry_count = 0
    /\ _unavailable_logged = FALSE
    /\ _connection_callbacks = <<>>
    /\ _notification_items = <<>>
    /\ _lock = "free"
    /\ IF ~open_ok /\ hass
       THEN /\ _reconnect_task = TRUE
            /\ pending = 1
            /\ last = Event("__init__", FALSE, "error", 1, <<>>, "None",
                            retry_interval(0))
       ELSE /\ _reconnect_task = FALSE
            /\ pending = 0
            /\ last = Event("__init__", FALSE,
                            IF open_ok THEN "ok" ELSE "error", 1, <<>>, "None", 0)

Init ==
    /\ \E hass \in BOOLEAN, open_ok \in BOOLEAN : AdsHub__init__(hass, open_ok)
    /\ pc = [t \in Threads |-> "idle"]
    /\ arg = [t \in Callers \cup Dispatchers |->
                 IF t \in Callers THEN "none" ELSE NoNotification]
    /\ ncalls = [t \in Threads |-> 0]
    /\ iter = IterIdle

----------------------------------------------------------------------------
(* hub.py: read_by_name, write_by_name, add_device_notification *)

\* (mutant) the connection is not tested before the transport is used
NotConnected_untested == FALSE

\* `if not self._connected:`
NotConnected == ~_connected

\* `with self._lock:` then `if not self._connected: return None`, else the
\* transport call starts
Enter(t, op, io, name) ==
    /\ pc[t] = "idle"
    /\ _lock = "free"
    /\ IF NotConnected
       THEN /\ last' = Event(op, FALSE, "not_connected", ncalls[t], <<>>, "None", 0)
            /\ UNCHANGED <<_lock, pc, arg, ncalls>>
       ELSE /\ _lock' = t
            /\ pc' = [pc EXCEPT ![t] = io]
            /\ arg' = [arg EXCEPT ![t] = name]
            /\ ncalls' = [ncalls EXCEPT ![t] = @ + 1]
            /\ last' = NoEvent
    /\ UNCHANGED <<_hass, _connected, _retry_count, _unavailable_logged,
                   _reconnect_task, pending, _connection_callbacks,
                   _notification_items, iter>>

\* leaving the `with self._lock:` block and returning
Leave(t) ==
    /\ _lock' = "free"
    /\ pc' = [pc EXCEPT ![t] = "idle"]
    /\ arg' = [arg EXCEPT ![t] = "none"]
    /\ ncalls' = [ncalls EXCEPT ![t] = 0]

\* (mutant) the error leaves the hub connected
ADSError_stays_connected(t, op) ==
    /\ _schedule_reconnect
    /\ last' = Event(op, TRUE, "error", ncalls[t], <<>>, "None", ScheduledDelay)
    /\ Leave(t)
    /\ UNCHANGED <<_hass, _connected, _retry_count, _unavailable_logged,
                   _connection_callbacks, _notification_items, iter>>

\* `except pyads.ADSError` of the three operations
ADSError(t, op) ==
    /\ _connected' = FALSE
    /\ _schedule_reconnect
    /\ last' = Event(op, TRUE, "error", ncalls[t], <<>>, "None", ScheduledDelay)
    /\ Leave(t)
    /\ UNCHANGED <<_hass, _retry_count, _unavailable_logged,
                   _connection_callbacks, _notification_items, iter>>

\* name and plc_datatype go to the transport as they are
read_by_name(t) == Enter(t, "read_by_name", "read_io", "none")

read_by_name_return(t, ok) ==
    /\ pc[t] = "read_io"
    /\ IF ok
       THEN /\ last' = Event("read_by_name", TRUE, "ok", ncalls[t], <<>>, "value", 0)
            /\ Leave(t)
            /\ UNCHANGED <<_hass, _connected, _retry_count, _unavailable_logged,
                           _reconnect_task, pending, _connection_callbacks,
                           _notification_items, iter>>
       ELSE ADSError(t, "read_by_name")

\* name, value and plc_datatype go to the transport as they are
write_by_name(t) == Enter(t, "write_by_name", "write_io", "none")

write_by_name_return(t, ok) ==
    /\ pc[t] = "write_io"
    /\ IF ok
       THEN /\ last' = Event("write_by_name", TRUE, "ok", ncalls[t], <<>>, "result", 0)
            /\ Leave(t)
            /\ UNCHANGED <<_hass, _connected, _retry_count, _unavailable_logged,
                           _reconnect_task, pending, _connection_callbacks,
                           _notification_items, iter>>
       ELSE ADSError(t, "write_by_name")

add_device_notification(t, name) ==
    Enter(t, "add_device_notification", "sub_io", name)

\* (mutant) the new item replaces the registry
StoreItem_alone(hnotify, name) ==
    [h \in {hnotify} |->
        NotificationItem(hnotify, hnotify, name, plc_datatype(name), name)]

\* the `else:` of add_device_notification: the transport assigned hnotify
StoreItem(hnotify, name) ==
    [h \in (DOMAIN _notification_items) \cup {hnotify} |->
        IF h = hnotify
        THEN NotificationItem(hnotify, hnotify, name, plc_datatype(name), name)
        ELSE _notification_items[h]]

add_device_notification_return(t, ok, hnotify) ==
    /\ pc[t] = "sub_io"
    /\ IF ok
       THEN /\ _notification_items' = StoreItem(hnotify, arg[t])
            /\ last' = Event("add_device_notification", TRUE, "ok", ncalls[t],
                             <<>>, "None", 0)
            /\ Leave(t)
            /\ UNCHANGED <<_hass, _connected, _retry_count, _unavailable_logged,
                           _reconnect_task, pending, _connection_callbacks, iter>>
       ELSE ADSError(t, "add_device_notification")

----------------------------------------------------------------------------
(* hub.py: check_connection *)

\* `with self._lock:` then self._client.read_state() starts
check_connection(t) ==
    /\ pc[t] = "idle"
    /\ _lock = "free"
    /\ _lock' = t
    /\ pc' = [pc EXCEPT ![t] = "chk_io"]
    /\ ncalls' = [ncalls EXCEPT ![t] = @ + 1]
    /\ last' = NoEvent
    /\ UNCHANGED <<_hass, _connected, _retry_count, _unavailable_logged,
                   _reconnect_task, pending, _connection_callbacks,
                   _notification_items, arg, iter>>

\* (mutant) the retry counter survives the recovery
check_connection_restored_keeps_retry(t) ==
    /\ IF ~_connected
       THEN /\ _connected' = TRUE
            /\ _unavailable_logged' = FALSE
            /\ last' = Event("check_connection", FALSE, "ok", ncalls[t],
                             _notify_connection_state(TRUE), "True", 0)
            /\ UNCHANGED _retry_count
       ELSE /\ last' = Event("check_connection", TRUE, "ok", ncalls[t],
                             <<>>, "True", 0)
            /\ UNCHANGED <<_connected, _retry_count, _unavailable_logged>>
    /\ UNCHANGED <<_reconnect_task, pending>>

\* read_state() returned
check_connection_restored(t) ==
    /\ IF ~_connected
       THEN /\ _connected' = TRUE
            /\ _retry_count' = 0
            /\ _unavailable_logged' = FALSE
            /\ last' = Event("check_connection", FALSE, "ok", ncalls[t],
                             _notify_connection_state(TRUE), "True", 0)
       ELSE /\ last' = Event("check_connection", TRUE, "ok", ncalls[t],
                             <<>>, "True", 0)
            /\ UNCHANGED <<_connected, _retry_count, _unavailable_logged>>
    /\ UNCHANGED <<_reconnect_task, pending>>

\* (mutant) the loss is not broadcast
check_connection_lost_silent(t) ==
    IF _connected
    THEN /\ _connected' = FALSE
         /\ _unavailable_logged' = TRUE
         /\ _schedule_reconnect
         /\ last' = Event("check_connection", TRUE, "error", ncalls[t],
                          <<>>, "False", ScheduledDelay)
         /\ UNCHANGED _retry_count
    ELSE /\ last' = Event("check_connection", FALSE, "error", ncalls[t],
                          <<>>, "False", 0)
         /\ UNCHANGED <<_connected, _retry_count, _unavailable_logged,
                        _reconnect_task, pending>>

\* read_state() raised pyads.ADSError
check_connection_lost(t) ==
    IF _connected
    THEN /\ _connected' = FALSE
         /\ _unavailable_logged' = TRUE
         /\ _schedule_reconnect
         /\ last' = Event("check_connection", TRUE, "error", ncalls[t],
                          _notify_connection_state(FALSE), "False", ScheduledDelay)
         /\ UNCHANGED _retry_count
    ELSE /\ last' = Event("check_connection", FALSE, "error", ncalls[t],
                          <<>>, "False", 0)
         /\ UNCHANGED <<_connected, _retry_count, _unavailable_logged,
                        _reconnect_task, pending>>

\* (mutant) a restored connection starts with an empty registry
check_connection_return_empties_registry(t, ok) ==
    /\ pc[t] = "chk_io"
    /\ IF ok THEN check_connection_restored(t) ELSE check_connection_lost(t)
    /\ Leave(t)
    /\ _notification_items' = IF ok /\ ~_connected THEN <<>>
                                                   ELSE _notification_items
    /\ UNCHANGED <<_hass, _connection_callbacks, iter>>

check_connection_return(t, ok) ==
    /\ pc[t] = "chk_io"
    /\ IF ok THEN check_connection_restored(t) ELSE check_connection_lost(t)
    /\ Leave(t)
    /\ UNCHANGED <<_hass, _connection_callbacks, _notification_items, iter>>

----------------------------------------------------------------------------
(* hub.py: the reconnection task and _try_reconnect *)

\* reconnect_async after its sleep: `self._reconnect_task = None`, then
\* _try_reconnect is handed to the executor
reconnect_async(j) ==
    /\ pending > 0
    /\ pc[j] = "idle"
    /\ pending' = pending - 1
    /\ _reconnect_task' = FALSE
    /\ pc' = [pc EXCEPT ![j] = "rc_start"]
    /\ last' = NoEvent
    /\ UNCHANGED <<_hass, _connected, _retry_count, _unavailable_logged,
                   _connection_callbacks, _notification_items, _lock, arg,
                   ncalls, iter>>

\* `if not self._connected:` then self._client.open() starts
_try_reconnect(j) ==
    /\ pc[j] = "rc_start"
    /\ IF _connected
       THEN /\ pc' = [pc EXCEPT ![j] = "idle"]
            /\ last' = Event("_try_reconnect", TRUE, "skipped", ncalls[j],
                             <<>>, "None", 0)
            /\ UNCHANGED ncalls
       ELSE /\ pc' = [pc EXCEPT ![j] = "rc_open"]
            /\ ncalls' = [ncalls EXCEPT ![j] = @ + 1]
            /\ last' = NoEvent
    /\ UNCHANGED <<_hass, _connected, _retry_count, _unavailable_logged,
                   _reconnect_task, pending, _connection_callbacks,
                   _notification_items, _lock, arg, iter>>

\* (mutant) the failed attempt does not schedule the next one
_try_reconnect_failed_gives_up(j) ==
    /\ _retry_count' = _retry_count + 1
    /\ _connected' = FALSE
    /\ _unavailable_logged' = TRUE
    /\ pc' = [pc EXCEPT ![j] = "idle"]
    /\ ncalls' = [ncalls EXCEPT ![j] = 0]
    /\ last' = Event("_try_reconnect", FALSE, "error", ncalls[j],
                     <<>>, "None", 0)
    /\ UNCHANGED <<_hass, _reconnect_task, pending, _connection_callbacks,
                   _notification_items, _lock, arg, iter>>

\* `except pyads.ADSError` of _try_reconnect, up to the test that opens
\* _schedule_reconnect
_try_reconnect_failed(j) ==
    /\ _retry_count' = _retry_count + 1
    /\ _connected' = FALSE
    /\ _unavailable_logged' = TRUE
    /\ IF ScheduleReturnsEarly
       THEN /\ pc' = [pc EXCEPT ![j] = "idle"]
            /\ ncalls' = [ncalls EXCEPT ![j] = 0]
            /\ last' = Event("_try_reconnect", FALSE, "error", ncalls[j],
                             <<>>, "None", 0)
       ELSE /\ pc' = [pc EXCEPT ![j] = "rc_sched"]
            /\ last' = NoEvent
            /\ UNCHANGED ncalls
    /\ UNCHANGED <<_hass, _reconnect_task, pending, _connection_callbacks,
                   _notification_items, _lock, arg, iter>>

\* self._client.open() returned or raised; on return read_state() starts
_try_reconnect_open(j, ok) ==
    /\ pc[j] = "rc_open"
    /\ IF ok
       THEN /\ pc' = [pc EXCEPT ![j] = "rc_probe"]
            /\ ncalls' = [ncalls EXCEPT ![j] = @ + 1]
            /\ last' = NoEvent
            /\ UNCHANGED <<_hass, _connected, _retry_count, _unavailable_logged,
                           _reconnect_task, pending, _connection_callbacks,
                           _notification_items, _lock, arg, iter>>
       ELSE _try_reconnect_failed(j)

\* (mutant) the retry counter survives the reconnection
_try_reconnect_succeeded_keeps_retry(j) ==
    /\ _connected' = TRUE
    /\ _unavailable_logged' = FALSE
    /\ pc' = [pc EXCEPT ![j] = "idle"]
    /\ ncalls' = [ncalls EXCEPT ![j] = 0]
    /\ last' = Event("_try_reconnect", FALSE, "ok", ncalls[j],
                     _notify_connection_state(TRUE), "None", 0)
    /\ UNCHANGED <<_hass, _retry_count, _reconnect_task, pending,
                   _connection_callbacks, _notification_items, _lock, arg, iter>>

\* read_state() returned: the connection is back
_try_reconnect_succeeded(j) ==
    /\ _connected' = TRUE
    /\ _retry_count' = 0
    /\ _unavailable_logged' = FALSE
    /\ pc' = [pc EXCEPT ![j] = "idle"]
    /\ ncalls' = [ncalls EXCEPT ![j] = 0]
    /\ last' = Event("_try_reconnect", FALSE, "ok", ncalls[j],
                     _notify_connection_state(TRUE), "None", 0)
    /\ UNCHANGED <<_hass, _reconnect_task, pending, _connection_callbacks,
                   _notification_items, _lock, arg, iter>>

_try_reconnect_probe(j, ok) ==
    /\ pc[j] = "rc_probe"
    /\ IF ok THEN _try_reconnect_succeeded(j) ELSE _try_reconnect_failed(j)

\* the rest of _schedule_reconnect as _try_reconnect runs it: the task is
\* created and stored. The job is never held back: it finds at most
\* MaxTasks tasks here.
_try_reconnect_schedule(j) ==
    /\ pc[j] = "rc_sched"
    /\ pending <= MaxTasks
    /\ pending' = pending + 1
    /\ _reconnect_task' = TRUE
    /\ pc' = [pc EXCEPT ![j] = "idle"]
    /\ ncalls' = [ncalls EXCEPT ![j] = 0]
    /\ last' = Event("_try_reconnect", FALSE, "error", ncalls[j], <<>>, "None",
                     retry_interval(_retry_count))
    /\ UNCHANGED <<_hass, _connected, _retry_count, _unavailable_logged,
                   _connection_callbacks, _notification_items, _lock, arg, iter>>

----------------------------------------------------------------------------
(* hub.py: shutdown *)

\* the next step of `for notification_item in self._notification_items.values()`:
\* del_device_notification starts for one more item, or, after the last,
\* self._client.close() starts
shutdown_next(s, todo, size) ==
    /\ IF todo # {}
       THEN \E h \in todo :
               /\ iter' = [todo |-> todo \ {h}, size |-> size]
               /\ pc' = [pc EXCEPT ![s] = "sd_del"]
       ELSE /\ iter' = [todo |-> {}, size |-> size]
            /\ pc' = [pc EXCEPT ![s] = "sd_close"]
    /\ ncalls' = [ncalls EXCEPT ![s] = @ + 1]
    /\ last' = NoEvent

\* the pending task is cancelled, then the loop starts
shutdown(s) ==
    /\ pc[s] = "idle"
    /\ IF _reconnect_task
       THEN /\ pending' = pending - 1
            /\ _reconnect_task' = FALSE
       ELSE UNCHANGED <<pending, _reconnect_task>>
    /\ shutdown_next(s, DOMAIN _notification_items,
                     Cardinality(DOMAIN _notification_items))
    /\ UNCHANGED <<_hass, _connected, _retry_count, _unavailable_logged,
                   _connection_callbacks, _notification_items, _lock, arg>>

\* del_device_notification returned or raised (the error is logged); the
\* dictionary iterator raises RuntimeError when the dictionary has grown
shutdown_del_return(s, ok) ==
    /\ pc[s] = "sd_del"
    /\ IF Cardinality(DOMAIN _notification_items) # iter.size
       THEN /\ pc' = [pc EXCEPT ![s] = "idle"]
            /\ ncalls' = [ncalls EXCEPT ![s] = 0]
            /\ iter' = IterIdle
            /\ last' = Event("shutdown", _connected, "raised", ncalls[s],
                             <<>>, "none", 0)
       ELSE shutdown_next(s, iter.todo, iter.size)
    /\ UNCHANGED <<_hass, _connected, _retry_count, _unavailable_logged,
                   _reconnect_task, pending, _connection_callbacks,
                   _notification_items, _lock, arg>>

\* self._client.close() returned (then `self._connected = False`) or raised
shutdown_close_return(s, ok) ==
    /\ pc[s] = "sd_close"
    /\ _connected' = IF ok THEN FALSE ELSE _connected
    /\ pc' = [pc EXCEPT ![s] = "idle"]
    /\ ncalls' = [ncalls EXCEPT ![s] = 0]
    /\ iter' = IterIdle
    /\ last' = Event("shutdown", _connected, IF ok THEN "ok" ELSE "error",
                     ncalls[s], <<>>, "None", 0)
    /\ UNCHANGED <<_hass, _retry_count, _unavailable_logged, _reconnect_task,
                   pending, _connection_callbacks, _notification_items, _lock,
                   arg>>

----------------------------------------------------------------------------
(* hub.py: _device_notification_callback *)

\* struct formats: size in bytes and kind ("<b" "<h" "<i" are signed
\* integers, "<B" "<H" "<I" unsigned integers, "<f" "<d" floats)
Format(size, kind) == [size |-> size, kind |-> kind]

\* (mutant) UINT and WORD are read as signed
unpack_formats_words_signed ==
    [BYTE |-> Format(1, "int"), INT |-> Format(2, "int"),
     UINT |-> Format(2, "int"), SINT |-> Format(1, "int"),
     USINT |-> Format(1, "uint"), DINT |-> Format(4, "int"),
     UDINT |-> Format(4, "uint"), WORD |-> Format(2, "int"),
     DWORD |-> Format(4, "uint"), LREAL |-> Format(8, "float"),
     REAL |-> Format(4, "float"), TOD |-> Format(4, "int"),
     DATE |-> Format(4, "int"), DT |-> Format(4, "int"),
     TIME |-> Format(4, "int")]

\* the dictionary as it is written, one entry per type name
unpack_formats ==
    [BYTE |-> Format(1, "int"), INT |-> Format(2, "int"),
     UINT |-> Format(2, "uint"), SINT |-> Format(1, "int"),
     USINT |-> Format(1, "uint"), DINT |-> Format(4, "int"),
     UDINT |-> Format(4, "uint"), WORD |-> Format(2, "uint"),
     DWORD |-> Format(4, "uint"), LREAL |-> Format(8, "float"),
     REAL |-> Format(4, "float"), TOD |-> Format(4, "int"),
     DATE |-> Format(4, "int"), DT |-> Format(4, "int"),
     TIME |-> Format(4, "int")]

RECURSIVE little_endian(_)
little_endian(data) ==
    IF data = <<>> THEN 0 ELSE data[1] + 256 * little_endian(Tail(data))

\* The Python integer high * 2^16 + low of an unsigned 32 bit format. The
\* integers of the model checker have 32 bits and a sign, so the value of
\* "<I" is kept as its two halves.
Wide(high, low) == [high |-> high, low |-> low]

\* struct.unpack(format, data)[0] where it does not raise struct.error; a
\* float is kept as the IEEE 754 bytes that denote it
struct_unpack(format, data) ==
    IF format.kind = "float" THEN [ieee754 |-> data]
    ELSE IF format.size <= 2
    THEN LET u == little_endian(data)
         IN  IF format.kind = "int" /\ u >= 2 ^ (8 * format.size - 1)
             THEN u - 2 ^ (8 * format.size)
             ELSE u
    ELSE LET low == little_endian(SubSeq(data, 1, 2))
             high == little_endian(SubSeq(data, 3, 4))
         IN  IF format.kind = "uint" THEN Wide(high, low)
             ELSE IF high >= 32768
                  THEN (high - 65536) * 65536 + low
                  ELSE high * 65536 + low

\* bytearray(data).split(b"\x00", 1)[0]
\* (mutant) the text is not cut at the zero byte
before_null_whole(data) == data

RECURSIVE before_null(_)
before_null(data) ==
    IF data = <<>> \/ data[1] = 0
    THEN <<>>
    ELSE <<data[1]>> \o before_null(Tail(data))

\* .decode("utf-8", errors="ignore") on the samples of the model, a text
\* being the sequence of its code points: 255 belongs to no character and
\* is dropped, the other bytes are ASCII
utf8_ignore(data) == SelectSeq(data, LAMBDA b : b < 128)

\* (mutant) a type without format makes the decoding fail
unpack_raises_unsupported(datatype, data) ==
    \/ datatype = "BOOL" /\ Len(data) # 1
    \/ /\ datatype \in DOMAIN unpack_formats
       /\ Len(data) # unpack_formats[datatype].size
    \/ datatype \notin (DOMAIN unpack_formats) \cup {"BOOL", "STRING"}

\* struct.unpack raises struct.error unless the buffer has the format's size
unpack_raises(datatype, data) ==
    \/ datatype = "BOOL" /\ Len(data) # 1
    \/ /\ datatype \in DOMAIN unpack_formats
       /\ Len(data) # unpack_formats[datatype].size

\* (mutant) a BOOL is true only for the byte 1
unpack_bool_is_one(datatype, data) ==
    IF datatype = "BOOL" THEN data[1] = 1
    ELSE IF datatype = "STRING" THEN utf8_ignore(before_null(data))
    ELSE IF datatype \in DOMAIN unpack_formats
         THEN struct_unpack(unpack_formats[datatype], data)
    ELSE data

\* the value handed to the callback
unpack(datatype, data) ==
    IF datatype = "BOOL" THEN data[1] # 0
    ELSE IF datatype = "STRING" THEN utf8_ignore(before_null(data))
    ELSE IF datatype \in DOMAIN unpack_formats
         THEN struct_unpack(unpack_formats[datatype], data)
    ELSE data

\* (mutant) a handle that is not registered raises KeyError
_device_notification_callback_keyerror(d, hnotify, data) ==
    /\ pc[d] = "idle"
    /\ _lock = "free"
    /\ IF hnotify \notin DOMAIN _notification_items
       THEN /\ last' = Event("_device_notification_callback", _connected,
                             "raised", 0, <<>>, "none", 0)
            /\ UNCHANGED <<pc, arg>>
       ELSE /\ pc' = [pc EXCEPT ![d] = "nt_call"]
            /\ arg' = [arg EXCEPT ![d] = [item |-> _notification_items[hnotify],
                                          data |-> data]]
            /\ last' = NoEvent
    /\ UNCHANGED <<_hass, _connected, _retry_count, _unavailable_logged,
                   _reconnect_task, pending, _connection_callbacks,
                   _notification_items, _lock, ncalls, iter>>

\* the transport delivers a sample for hnotify: the item is looked up under
\* the lock, which is released at once; an unknown handle is logged
_device_notification_callback(d, hnotify, data) ==
    /\ pc[d] = "idle"
    /\ _lock = "free"
    /\ IF hnotify \notin DOMAIN _notification_items
       THEN /\ last' = Event("_device_notification_callback", _connected,
                             "unknown", 0, <<>>, "None", 0)
            /\ UNCHANGED <<pc, arg>>
       ELSE /\ pc' = [pc EXCEPT ![d] = "nt_call"]
            /\ arg' = [arg EXCEPT ![d] = [item |-> _notification_items[hnotify],
                                          data |-> data]]
            /\ last' = NoEvent
    /\ UNCHANGED <<_hass, _connected, _retry_count, _unavailable_logged,
                   _reconnect_task, pending, _connection_callbacks,
                   _notification_items, _lock, ncalls, iter>>

\* the calls made on the subscribers' callbacks: (callback, name, value)
notify(item, value) == <<<<item.callback, item.name, value>>>>

\* (mutant) the lock of the lookup is still held after the callback
_device_notification_deliver_locked(d) ==
    /\ pc[d] = "nt_call"
    /\ _lock = "free"
    /\ _lock' = d
    /\ last' = Event("_device_notification_callback", _connected, "ok", 0,
                     notify(arg[d].item, arg[d].data), "None", 0)
    /\ pc' = [pc EXCEPT ![d] = "idle"]
    /\ arg' = [arg EXCEPT ![d] = NoNotification]
    /\ UNCHANGED <<_hass, _connected, _retry_count, _unavailable_logged,
                   _reconnect_task, pending, _connection_callbacks,
                   _notification_items, ncalls, iter>>

\* the sample is decoded and handed to the item's callback, outside the lock
_device_notification_deliver(d) ==
    /\ pc[d] = "nt_call"
    /\ LET item == arg[d].item
           data == arg[d].data
       IN  IF unpack_raises(item.plc_datatype, data)
           THEN last' = Event("_device_notification_callback", _connected,
                              "raised", 0, <<>>, "none", 0)
           ELSE last' = Event("_device_notification_callback", _connected,
                              "ok", 0,
                              notify(item, unpack(item.plc_datatype, data)),
                              "None", 0)
    /\ pc' = [pc EXCEPT ![d] = "idle"]
    /\ arg' = [arg EXCEPT ![d] = NoNotification]
    /\ UNCHANGED <<_hass, _connected, _retry_count, _unavailable_logged,
                   _reconnect_task, pending, _connection_callbacks,
                   _notification_items, _lock, ncalls, iter>>

----------------------------------------------------------------------------
(* The configuration flow: validate_net_id and validate_connection. A text
   is the sequence of its characters. *)

Flows == {"f1"}

\* the parts the Net IDs of the model are made of: "255", "256", "-1" and
\* the empty text
NetIdParts == {<<"2", "5", "5">>, <<"2", "5", "6">>, <<"-", "1">>, <<>>}

\* ".".join(parts)
RECURSIVE Join(_)
Join(parts) ==
    IF Len(parts) = 1
    THEN parts[1]
    ELSE parts[1] \o <<".">> \o Join(Tail(parts))

\* net_id.split(".")
RECURSIVE split(_)
split(net_id) ==
    IF net_id = <<>>
    THEN <<<<>>>>
    ELSE LET rest == split(Tail(net_id))
         IN  IF Head(net_id) = "."
             THEN <<<<>>>> \o rest
             ELSE <<<<Head(net_id)>> \o Head(rest)>> \o Tail(rest)

DigitChars == {"0", "1", "2", "3", "4", "5", "6", "7", "8", "9"}

digit(c) ==
    CASE c = "0" -> 0 [] c = "1" -> 1 [] c = "2" -> 2 [] c = "3" -> 3
      [] c = "4" -> 4 [] c = "5" -> 5 [] c = "6" -> 6 [] c = "7" -> 7
      [] c = "8" -> 8 [] c = "9" -> 9

\* str.strip() as int() applies it, for the blank
RECURSIVE lstrip(_)
lstrip(part) ==
    IF part # <<>> /\ Head(part) = " " THEN lstrip(Tail(part)) ELSE part

RECURSIVE rstrip(_)
rstrip(part) ==
    IF part # <<>> /\ part[Len(part)] = " "
    THEN rstrip(SubSeq(part, 1, Len(part) - 1))
    ELSE part

\* the digits of a literal after its sign
int_body(part) ==
    LET text == rstrip(lstrip(part))
    IN  IF text # <<>> /\ Head(text) \in {"+", "-"} THEN Tail(text) ELSE text

\* int(part) raises ValueError: the literal is not digits, with single
\* underscores allowed between them
int_raises(part) ==
    LET body == int_body(part)
    IN  \/ body = <<>>
        \/ \E i \in 1..Len(body) : body[i] \notin DigitChars \cup {"_"}
        \/ body[1] = "_"
        \/ body[Len(body)] = "_"
        \/ \E i \in 1..(Len(body) - 1) : body[i] = "_" /\ body[i + 1] = "_"

RECURSIVE int_digits(_, _)
int_digits(body, value) ==
    IF body = <<>> THEN value
    ELSE IF Head(body) = "_" THEN int_digits(Tail(body), value)
    ELSE int_digits(Tail(body), 10 * value + digit(Head(body)))

\* int(part) where it does not raise
int(part) ==
    LET text == rstrip(lstrip(part))
        value == int_digits(int_body(part), 0)
    IN  IF Head(text) = "-" THEN 0 - value ELSE value

\* (mutant) 256 passes for an octet
validate_parts_to_256(parts) ==
    \A i \in 1..Len(parts) :
       ~int_raises(parts[i]) /\ int(parts[i]) >= 0 /\ int(parts[i]) <= 256

\* the `try:` of validate_net_id: the loop over the parts
RECURSIVE validate_parts(_)
validate_parts(parts) ==
    IF parts = <<>> THEN TRUE
    ELSE IF int_raises(Head(parts)) THEN FALSE
    ELSE IF int(Head(parts)) < 0 \/ int(Head(parts)) > 255 THEN FALSE
    ELSE validate_parts(Tail(parts))

validate_net_id(net_id) ==
    LET parts == split(net_id)
    IN  IF Len(parts) # 6 THEN FALSE ELSE validate_parts(parts)

\* what a call of the transport does: it returns, raises pyads.ADSError or
\* raises another exception
CallOutcomes == {"ok", "ADSError", "Exception"}

\* the outcomes of the calls validate_connection makes after
\* pyads.Connection(...): none when it makes no call, of open alone when it
\* raises, else of open, read_state and close
TransportRuns ==
    {<<>>}
       \cup {<<open>> : open \in CallOutcomes \ {"ok"}}
       \cup {<<"ok", read_state, close>> :
                read_state \in CallOutcomes, close \in CallOutcomes}

\* the errors validate_connection returns for the exception that left its
\* outer try
errors_of(raised) ==
    CASE raised = "ok" -> "None"
      [] raised = "ADSError" -> "cannot_connect"
      [] raised = "Exception" -> "unknown"

\* validate_connection(hass, data) with data[CONF_DEVICE] = arg[f].device
validate_connection(f, run) ==
    /\ pc[f] = "vc_call"
    /\ IF ~validate_net_id(arg[f].device)
       THEN /\ run = <<>>
            /\ last' = Event("validate_connection", _connected, "ok", 0,
                             <<>>, "invalid_net_id", 0)
       ELSE IF run = <<>> THEN FALSE
       ELSE IF run[1] # "ok"
       THEN last' = Event("validate_connection", _connected, "ok", 2,
                          <<>>, errors_of(run[1]), 0)
       ELSE last' = Event("validate_connection", _connected, "ok", 4, <<>>,
                          errors_of(IF run[3] # "ok" THEN run[3] ELSE run[2]),
                          0)
    /\ pc' = [pc EXCEPT ![f] = "idle"]
    /\ UNCHANGED <<_hass, _connected, _retry_count, _unavailable_logged,
                   _reconnect_task, pending, _connection_callbacks,
                   _notification_items, _lock, arg, ncalls, iter>>

\* The flow has the user's input, data[CONF_DEVICE] being up to MaxParts
\* parts with dots between them, and is to validate it; no hub exists yet
InitFlow ==
    /\ _hass = FALSE
    /\ _connected = FALSE
    /\ _retry_count = 0
    /\ _unavailable_logged = FALSE
    /\ _reconnect_task = FALSE
    /\ pending = 0
    /\ _connection_callbacks = <<>>
    /\ _notification_items = <<>>
    /\ _lock = "free"
    /\ pc = [f \in Flows |-> "vc_call"]
    /\ \E n \in 1..MaxParts :
          \E parts \in [1..n -> NetIdParts] :
             arg = [f \in Flows |-> [device |-> Join(parts)]]
    /\ ncalls = [f \in Flows |-> 0]
    /\ iter = IterIdle
    /\ last = NoEvent

NextFlow == \E f \in Flows, run \in TransportRuns : validate_connection(f, run)

SpecFlow == InitFlow /\ [][NextFlow]_vars

----------------------------------------------------------------------------
(* entity.py: AdsEntity.async_initialize_device. arg[e] holds the fields of
   the entity e and what its wait depends on: state is
   _state_dict[STATE_KEY_STATE], _event whether the asyncio.Event is set,
   registered whether the hub stored the subscription, queued the
   async_event_set coroutines handed to the event loop and not yet run,
   updates the notifications delivered so far, elapsed the seconds since
   the wait began. *)

Entities == {"e1"}

\* `async with timeout(10):`
FIRST_VALUE_TIMEOUT == 10

\* the decoded values the hub hands to update()
EntityValues == {"True", "False"}

\* AdsEntity.__init__
NewEntity ==
    [state |-> "None", _event |-> FALSE, registered |-> FALSE, queued |-> 0,
     updates |-> 0, elapsed |-> 0]

\* `self._event = asyncio.Event()`, then the executor job is awaited
async_initialize_device(e) ==
    /\ pc[e] = "ei_call"
    /\ arg' = [arg EXCEPT ![e]._event = FALSE]
    /\ pc' = [pc EXCEPT ![e] = "ei_register"]
    /\ last' = NoEvent
    /\ UNCHANGED <<_hass, _connected, _retry_count, _unavailable_logged,
                   _reconnect_task, pending, _connection_callbacks,
                   _notification_items, _lock, ncalls, iter>>

\* the executor job: hub.add_device_notification stores the subscription,
\* or logs and returns when the hub is disconnected or the transport raises
async_initialize_device_registered(e, ok) ==
    /\ pc[e] = "ei_register"
    /\ arg' = [arg EXCEPT ![e].registered = ok]
    /\ pc' = [pc EXCEPT ![e] = "ei_resume"]
    /\ last' = NoEvent
    /\ UNCHANGED <<_hass, _connected, _retry_count, _unavailable_logged,
                   _reconnect_task, pending, _connection_callbacks,
                   _notification_items, _lock, ncalls, iter>>

\* the task resumes and enters `async with timeout(10)`
async_initialize_device_wait(e) ==
    /\ pc[e] = "ei_resume"
    /\ arg' = [arg EXCEPT ![e].elapsed = 0]
    /\ pc' = [pc EXCEPT ![e] = "ei_wait"]
    /\ last' = NoEvent
    /\ UNCHANGED <<_hass, _connected, _retry_count, _unavailable_logged,
                   _reconnect_task, pending, _connection_callbacks,
                   _notification_items, _lock, ncalls, iter>>

\* update(name, value), called by the hub on the transport's thread
update(e, value) ==
    /\ arg[e].registered
    /\ arg[e].updates < MaxUpdates
    /\ arg' = [arg EXCEPT ![e].state = value,
                          ![e].queued = @ + 1,
                          ![e].updates = @ + 1]
    /\ last' = NoEvent
    /\ UNCHANGED <<_hass, _connected, _retry_count, _unavailable_logged,
                   _reconnect_task, pending, _connection_callbacks,
                   _notification_items, _lock, pc, ncalls, iter>>

\* async_event_set(), run by the event loop
async_event_set(e) ==
    /\ arg[e].queued > 0
    /\ arg' = [arg EXCEPT ![e]._event = TRUE, ![e].queued = @ - 1]
    /\ last' = NoEvent
    /\ UNCHANGED <<_hass, _connected, _retry_count, _unavailable_logged,
                   _reconnect_task, pending, _connection_callbacks,
                   _notification_items, _lock, pc, ncalls, iter>>

\* a second of the wait passes
tick(e) ==
    /\ pc[e] = "ei_wait"
    /\ arg[e].elapsed < FIRST_VALUE_TIMEOUT
    /\ arg' = [arg EXCEPT ![e].elapsed = @ + 1]
    /\ last' = NoEvent
    /\ UNCHANGED <<_hass, _connected, _retry_count, _unavailable_logged,
                   _reconnect_task, pending, _connection_callbacks,
                   _notification_items, _lock, pc, ncalls, iter>>

\* `await self._event.wait()` returns
async_initialize_device_return(e) ==
    /\ pc[e] = "ei_wait"
    /\ arg[e]._event
    /\ pc' = [pc EXCEPT ![e] = "idle"]
    /\ last' = Event("async_initialize_device", _connected, "first_value", 0,
                     <<>>, "None", arg[e].elapsed)
    /\ UNCHANGED <<_hass, _connected, _retry_count, _unavailable_logged,
                   _reconnect_task, pending, _connection_callbacks,
                   _notification_items, _lock, arg, ncalls, iter>>

\* (mutant) TimeoutError is not caught
TimeoutError_raised == "raised"

\* `except TimeoutError:` logs
TimeoutError == "timeout"

\* the timeout cancels the wait
async_initialize_device_timeout(e) ==
    /\ pc[e] = "ei_wait"
    /\ arg[e].elapsed = FIRST_VALUE_TIMEOUT
    /\ pc' = [pc EXCEPT ![e] = "idle"]
    /\ last' = Event("async_initialize_device", _connected, TimeoutError, 0,
                     <<>>, IF TimeoutError = "timeout" THEN "None" ELSE "none",
                     arg[e].elapsed)
    /\ UNCHANGED <<_hass, _connected, _retry_count, _unavailable_logged,
                   _reconnect_task, pending, _connection_callbacks,
                   _notification_items, _lock, arg, ncalls, iter>>

\* An entity on a connected hub, about to run async_initialize_device
InitEntity ==
    /\ _hass = TRUE
    /\ _connected = TRUE
    /\ _retry_count = 0
    /\ _unavailable_logged = FALSE
    /\ _reconnect_task = FALSE
    /\ pending = 0
    /\ _connection_callbacks = <<>>
    /\ _notification_items = <<>>
    /\ _lock = "free"
    /\ pc = [e \in Entities |-> "ei_call"]
    /\ arg = [e \in Entities |-> NewEntity]
    /\ ncalls = [e \in Entities |-> 0]
    /\ iter = IterIdle
    /\ last = NoEvent

\* the steps of the event loop and its executor
LoopStep ==
    \/ \E e \in Entities : async_initialize_device(e)
    \/ \E e \in Entities, ok \in BOOLEAN :
          async_initialize_device_registered(e, ok)
    \/ \E e \in Entities : async_initialize_device_wait(e)
    \/ \E e \in Entities : async_event_set(e)
    \/ \E e \in Entities : async_initialize_device_return(e)

\* the steps of the clock
TimeStep ==
    \/ \E e \in Entities : tick(e)
    \/ \E e \in Entities : async_initialize_device_timeout(e)

\* the notifications of the transport
UpdateStep == \E e \in Entities, value \in EntityValues : update(e, value)

NextEntity == LoopStep \/ TimeStep \/ UpdateStep

\* the event loop runs what is ready and time passes; the transport need
\* not deliver anything
SpecEntity ==
    InitEntity /\ [][NextEntity]_vars /\ WF_vars(LoopStep) /\ WF_vars(TimeStep)

----------------------------------------------------------------------------
(* hub.py: _notify_connection_state statement by statement. The `for` loop
   holds a list iterator, which is a position in the list; the observers are
   added and removed by the event loop while an executor thread runs the
   loop. iter[t] is the iterator of thread t, with the value it broadcasts
   and the calls it has made. *)

Notifiers == {"n1", "n2"}

\* the observers that stay registered; the others come and go
Staying == {"o2"}

NoFanOut == [index |-> 0, connected |-> FALSE, sent |-> <<>>]

\* `for callback in self._connection_callbacks:` creates the iterator
_notify_connection_state_iter(t, connected) ==
    /\ pc[t] = "idle"
    /\ pc' = [pc EXCEPT ![t] = "fo_next"]
    /\ iter' = [iter EXCEPT ![t] = [index |-> 0, connected |-> connected,
                                    sent |-> <<>>]]
    /\ last' = NoEvent
    /\ UNCHANGED <<_hass, _connected, _retry_count, _unavailable_logged,
                   _reconnect_task, pending, _connection_callbacks,
                   _notification_items, _lock, arg, ncalls>>

\* the iterator's next: the callback at its position is called and the
\* position moves on, or the position is past the end and the loop is over
_notify_connection_state_next(t) ==
    /\ pc[t] = "fo_next"
    /\ IF iter[t].index < Len(_connection_callbacks)
       THEN /\ iter' = [iter EXCEPT
                          ![t].index = @ + 1,
                          ![t].sent =
                             Append(@, <<_connection_callbacks[iter[t].index + 1],
                                         iter[t].connected>>)]
            /\ last' = NoEvent
            /\ UNCHANGED pc
       ELSE /\ iter' = [iter EXCEPT ![t] = NoFanOut]
            /\ pc' = [pc EXCEPT ![t] = "idle"]
            /\ last' = Event("_notify_connection_state", _connected, "ok", 0,
                             iter[t].sent, "None", 0)
    /\ UNCHANGED <<_hass, _connected, _retry_count, _unavailable_logged,
                   _reconnect_task, pending, _connection_callbacks,
                   _notification_items, _lock, arg, ncalls>>

\* A hub whose observers are registered, the staying ones among them
InitFanOut ==
    /\ _hass = TRUE
    /\ _connected \in BOOLEAN
    /\ _retry_count = 0
    /\ _unavailable_logged = FALSE
    /\ _reconnect_task = FALSE
    /\ pending = 0
    /\ _connection_callbacks \in {<<"o1", "o2">>, <<"o2", "o1">>, <<"o2">>}
    /\ _notification_items = <<>>
    /\ _lock = "free"
    /\ pc = [t \in Notifiers |-> "idle"]
    /\ arg = [t \in Notifiers |-> "none"]
    /\ ncalls = [t \in Notifiers |-> 0]
    /\ iter = [t \in Notifiers |-> NoFanOut]
    /\ last = NoEvent

NextFanOut ==
    \/ \E o \in Observers \ Staying : add_connection_callback(o)
    \/ \E o \in Observers \ Staying : remove_connection_callback(o)
    \/ \E t \in Notifiers, connected \in BOOLEAN :
          _notify_connection_state_iter(t, connected)
    \/ \E t \in Notifiers : _notify_connection_state_next(t)

SpecFanOut == InitFanOut /\ [][NextFanOut]_vars

----------------------------------------------------------------------------
(* hub.py: a notification that arrives while its subscription is being
   stored. The transport calls _device_notification_callback on its own
   thread as soon as it has assigned the handle; the callback reads the
   sample and then waits for the lock of the lookup. *)

\* the notification of handle hnotify as it arrives: no item looked up yet
Arrived(hnotify, data) ==
    [item |-> NotificationItem(hnotify, 0, "none", "none", "none"),
     data |-> data]

\* the head of _device_notification_callback: hnotify and the sample are
\* read from the notification, then `with self._lock:` is reached
_device_notification_callback_arrives(d, hnotify, data) ==
    /\ pc[d] = "idle"
    /\ pc' = [pc EXCEPT ![d] = "nt_wait"]
    /\ arg' = [arg EXCEPT ![d] = Arrived(hnotify, data)]
    /\ last' = NoEvent
    /\ UNCHANGED <<_hass, _connected, _retry_count, _unavailable_logged,
                   _reconnect_task, pending, _connection_callbacks,
                   _notification_items, _lock, ncalls, iter>>

\* (mutant) the lookup does not take the lock
_device_notification_callback_lookup_unlocked(d) ==
    /\ pc[d] = "nt_wait"
    /\ IF arg[d].item.hnotify \notin DOMAIN _notification_items
       THEN /\ last' = Event("_device_notification_callback", _connected,
                             "unknown", 0, <<>>, "None", 0)
            /\ pc' = [pc EXCEPT ![d] = "idle"]
            /\ arg' = [arg EXCEPT ![d] = NoNotification]
       ELSE /\ pc' = [pc EXCEPT ![d] = "nt_call"]
            /\ arg' = [arg EXCEPT
                         ![d].item = _notification_items[arg[d].item.hnotify]]
            /\ last' = NoEvent
    /\ UNCHANGED <<_hass, _connected, _retry_count, _unavailable_logged,
                   _reconnect_task, pending, _connection_callbacks,
                   _notification_items, _lock, ncalls, iter>>

\* `with self._lock: notification_item = self._notification_items.get(hnotify)`
\* and the return on an unknown handle
_device_notification_callback_lookup(d) ==
    /\ pc[d] = "nt_wait"
    /\ _lock = "free"
    /\ IF arg[d].item.hnotify \notin DOMAIN _notification_items
       THEN /\ last' = Event("_device_notification_callback", _connected,
                             "unknown", 0, <<>>, "None", 0)
            /\ pc' = [pc EXCEPT ![d] = "idle"]
            /\ arg' = [arg EXCEPT ![d] = NoNotification]
       ELSE /\ pc' = [pc EXCEPT ![d] = "nt_call"]
            /\ arg' = [arg EXCEPT
                         ![d].item = _notification_items[arg[d].item.hnotify]]
            /\ last' = NoEvent
    /\ UNCHANGED <<_hass, _connected, _retry_count, _unavailable_logged,
                   _reconnect_task, pending, _connection_callbacks,
                   _notification_items, _lock, ncalls, iter>>

\* a notification has arrived for a handle that is not stored yet
Early(d) ==
    /\ pc[d] = "nt_wait"
    /\ arg[d].item.hnotify \notin DOMAIN _notification_items

\* The transport delivers notifications for the handles it has assigned: the
\* stored ones and the one of the subscribe call that is in flight, which
\* then returns that handle
NextArrive ==
    \/ \E t \in {"c1"}, name \in PlcVars : add_device_notification(t, name)
    \/ \E t \in {"c1"}, ok \in BOOLEAN, hnotify \in Handles :
          /\ \A d \in Dispatchers :
                Early(d) => ok /\ hnotify = arg[d].item.hnotify
          /\ add_device_notification_return(t, ok, hnotify)
    \/ \E t \in {"c1"} : check_connection(t)
    \/ \E t \in {"c1"}, ok \in BOOLEAN : check_connection_return(t, ok)
    \/ \E d \in Dispatchers, hnotify \in Handles, data \in Payloads :
          /\ \/ hnotify \in DOMAIN _notification_items
             \/ \E t \in Callers : pc[t] = "sub_io"
          /\ _device_notification_callback_arrives(d, hnotify, data)
    \/ \E d \in Dispatchers : _device_notification_callback_lookup(d)
    \/ \E d \in Dispatchers : _device_notification_deliver(d)

SpecArrive == Init /\ [][NextArrive]_vars

----------------------------------------------------------------------------
(* config_flow.py: AdsOptionsFlowHandler. arg[f] holds the fields of the
   handler f and what it works on: options is
   config_entry.options[CONF_ENTITIES], saved the data of the entry that
   finish creates (none yet: the empty sequence), _entity_index a position
   from 1 (None: 0), _entity_to_edit a dict or None (the empty sequence);
   pc[f] is the step whose menu or form is shown. A name is its characters,
   a missing key of a dict its empty value. The optional fields of lights,
   sensors and covers take no part in the bookkeeping of the list and are
   left out. *)

ENTITY_TYPES == {"switch", "light", "sensor", "binary_sensor", "cover"}

\* the names a user enters
Names == {<<"A">>, <<"a">>, <<"a", " ">>, <<"a", "_">>, <<"B">>}

AdsVars == {"v1", "v2"}

\* str.lower() of one character
lower(c) == IF c = "A" THEN "a" ELSE IF c = "B" THEN "b" ELSE c

\* `user_input[CONF_NAME].lower().replace(" ", "_")`
normalized(name) ==
    [i \in 1..Len(name) |-> IF lower(name[i]) = " " THEN "_" ELSE lower(name[i])]

\* `entity_config = {...}`
entity_config(type, name, ads_var) ==
    [type |-> type, entity_id |-> normalized(name), name |-> name,
     ads_var |-> ads_var]

\* `self._entity_to_edit = {CONF_TYPE: entity_type}`
only_type(type) ==
    [type |-> type, entity_id |-> <<>>, name |-> <<>>, ads_var |-> ""]

entity_ids(entities) == {entities[i].entity_id : i \in 1..Len(entities)}

\* the step of the form that configures an entity of the type
ConfigureStep(type) ==
    [switch |-> "configure_switch", light |-> "configure_light",
     sensor |-> "configure_sensor",
     binary_sensor |-> "configure_binary_sensor",
     cover |-> "configure_cover"][type]

\* AdsOptionsFlowHandler.__init__
AdsOptionsFlowHandler__init__(options) ==
    [options |-> options, _entities |-> <<>>, _entity_to_edit |-> <<>>,
     _entity_index |-> 0, saved |-> <<>>]

\* async_step_init as the steps call it: the list is loaded from the options
\* of the config entry
load_entities(flow) == [flow EXCEPT !._entities = flow.options]

\* the handler returns: its fields, the step it shows and what it did
Shown(f, flow, step, op, outcome, sent) ==
    /\ arg' = [arg EXCEPT ![f] = flow]
    /\ pc' = [pc EXCEPT ![f] = step]
    /\ last' = Event(op, _connected, outcome, 0, sent, step, 0)
    /\ UNCHANGED <<_hass, _connected, _retry_count, _unavailable_logged,
                   _reconnect_task, pending, _connection_callbacks,
                   _notification_items, _lock, ncalls, iter>>

\* the flow opens with the menu
async_step_init(f) ==
    /\ pc[f] = "start"
    /\ Shown(f, load_entities(arg[f]), "init", "async_step_init", "menu", <<>>)

async_step_finish(f) ==
    /\ pc[f] = "init"
    /\ Shown(f, [arg[f] EXCEPT !.saved = <<arg[f]._entities>>], "done",
             "async_step_finish", "create_entry", <<>>)

\* user_input is None (the empty sequence) when the menu opens the step
async_step_add_entity(f, user_input) ==
    IF user_input = <<>>
    THEN /\ pc[f] = "init"
         /\ Shown(f, arg[f], "add_entity", "async_step_add_entity", "form", <<>>)
    ELSE /\ pc[f] = "add_entity"
         /\ Shown(f, [arg[f] EXCEPT !._entity_to_edit = <<only_type(user_input[1])>>],
                  ConfigureStep(user_input[1]), "async_step_add_entity",
                  "form", <<>>)

\* (mutant) the name of a new entity is not compared with the list
entity_exists_never(flow, entity_id) == FALSE

\* `self._entity_index is None and any(e.get(CONF_ENTITY_ID) == entity_id
\* for e in self._entities)`
entity_exists(flow, entity_id) ==
    flow._entity_index = 0 /\ entity_id \in entity_ids(flow._entities)

\* the submitted form of async_step_configure_switch, _light, _sensor,
\* _binary_sensor and _cover, which differ in the type and the optional
\* fields only
async_step_configure(f, type, name, ads_var) ==
    /\ pc[f] = ConfigureStep(type)
    /\ LET flow == arg[f]
           entity == entity_config(type, name, ads_var)
       IN  IF entity_exists(flow, entity.entity_id)
           THEN Shown(f, flow, ConfigureStep(type), ConfigureStep(type),
                      "entity_exists", <<>>)
           ELSE LET entities ==
                       IF flow._entity_index # 0
                       THEN [flow._entities EXCEPT ![flow._entity_index] = entity]
                       ELSE Append(flow._entities, entity)
                IN  Shown(f, load_entities([flow EXCEPT
                                               !._entities = entities,
                                               !._entity_to_edit = <<>>,
                                               !._entity_index = 0]),
                          "init", ConfigureStep(type),
                          IF flow._entity_index # 0 THEN "edited" ELSE "added",
                          <<entity>>)

async_step_configure_switch(f, name, ads_var) ==
    async_step_configure(f, "switch", name, ads_var)

async_step_configure_light(f, name, ads_var) ==
    async_step_configure(f, "light", name, ads_var)

async_step_configure_sensor(f, name, ads_var) ==
    async_step_configure(f, "sensor", name, ads_var)

async_step_configure_binary_sensor(f, name, ads_var) ==
    async_step_configure(f, "binary_sensor", name, ads_var)

async_step_configure_cover(f, name, ads_var) ==
    async_step_configure(f, "cover", name, ads_var)

\* `for idx, entity in enumerate(self._entities)`: the first with the id
index_of(entities, entity_id) ==
    CHOOSE idx \in 1..Len(entities) :
       /\ entities[idx].entity_id = entity_id
       /\ \A k \in 1..(idx - 1) : entities[k].entity_id # entity_id

\* user_input is None when the menu opens the step, else the id chosen
\* among those of the list
async_step_edit_entity(f, user_input) ==
    /\ IF user_input = <<>>
       THEN pc[f] = "init"
       ELSE pc[f] = "edit_entity" /\ user_input[1] \in entity_ids(arg[f]._entities)
    /\ LET flow == arg[f]
       IN  IF flow._entities = <<>>
           THEN Shown(f, load_entities(flow), "init", "async_step_edit_entity",
                      "menu", <<>>)
           ELSE IF user_input = <<>>
           THEN Shown(f, flow, "edit_entity", "async_step_edit_entity",
                      "form", <<>>)
           ELSE LET idx == index_of(flow._entities, user_input[1])
                IN  Shown(f, [flow EXCEPT !._entity_index = idx,
                                          !._entity_to_edit = <<flow._entities[idx]>>],
                          ConfigureStep(flow._entities[idx].type),
                          "async_step_edit_entity", "form", <<>>)

\* the list without the entities of the id
without(entities, entity_id) ==
    SelectSeq(entities, LAMBDA e : e.entity_id # entity_id)

async_step_remove_entity(f, user_input) ==
    /\ IF user_input = <<>>
       THEN pc[f] = "init"
       ELSE pc[f] = "remove_entity" /\ user_input[1] \in entity_ids(arg[f]._entities)
    /\ LET flow == arg[f]
       IN  IF flow._entities = <<>>
           THEN Shown(f, load_entities(flow), "init", "async_step_remove_entity",
                      "menu", <<>>)
           ELSE IF user_input = <<>>
           THEN Shown(f, flow, "remove_entity", "async_step_remove_entity",
                      "form", <<>>)
           ELSE Shown(f, load_entities([flow EXCEPT !._entities =
                                           without(flow._entities, user_input[1])]),
                      "init", "async_step_remove_entity", "removed", user_input)

\* the entities an earlier session saved
StoredEntities ==
    {entity_config(type, name, "v1") : type \in ENTITY_TYPES, name \in Names}

\* the ids of the list are pairwise distinct
distinct_ids(entities) ==
    \A i \in 1..Len(entities), k \in 1..Len(entities) :
       i # k => entities[i].entity_id # entities[k].entity_id

\* An options flow constructed for a config entry whose options hold a list
\* of entities with pairwise distinct ids
InitOptions ==
    /\ _hass = FALSE
    /\ _connected = FALSE
    /\ _retry_count = 0
    /\ _unavailable_logged = FALSE
    /\ _reconnect_task = FALSE
    /\ pending = 0
    /\ _connection_callbacks = <<>>
    /\ _notification_items = <<>>
    /\ _lock = "free"
    /\ pc = [f \in Flows |-> "start"]
    /\ \E n \in 0..MaxEntities :
          \E options \in [1..n -> StoredEntities] :
             /\ distinct_ids(options)
             /\ arg = [f \in Flows |-> AdsOptionsFlowHandler__init__(options)]
    /\ ncalls = [f \in Flows |-> 0]
    /\ iter = IterIdle
    /\ last = NoEvent

\* what a step is called with
NoInput == {<<>>}

NextOptions ==
    \/ \E f \in Flows : async_step_init(f)
    \/ \E f \in Flows : async_step_finish(f)
    \/ \E f \in Flows, user_input \in NoInput \cup {<<type>> : type \in ENTITY_TYPES} :
          async_step_add_entity(f, user_input)
    \/ \E f \in Flows, name \in Names, ads_var \in AdsVars :
          async_step_configure_switch(f, name, ads_var)
    \/ \E f \in Flows, name \in Names, ads_var \in AdsVars :
          async_step_configure_light(f, name, ads_var)
    \/ \E f \in Flows, name \in Names, ads_var \in AdsVars :
          async_step_configure_sensor(f, name, ads_var)
    \/ \E f \in Flows, name \in Names, ads_var \in AdsVars :
          async_step_configure_binary_sensor(f, name, ads_var)
    \/ \E f \in Flows, name \in Names, ads_var \in AdsVars :
          async_step_configure_cover(f, name, ads_var)
    \/ \E f \in Flows, user_input \in NoInput \cup {<<normalized(name)>> : name \in Names} :
          async_step_edit_entity(f, user_input)
    \/ \E f \in Flows, user_input \in NoInput \cup {<<normalized(name)>> : name \in Names} :
          async_step_remove_entity(f, user_input)

SpecOptions == InitOptions /\ [][NextOptions]_vars

----------------------------------------------------------------------------
(* The system *)

\* The steps of the observers' registration
ObserverStep ==
    \/ \E o \in Observers : add_connection_callback(o)
    \/ \E o \in Observers : remove_connection_callback(o)

\* The steps of the operations of the caller threads T on the variables V
CallerStep(T, V) ==
    \/ \E t \in T : read_by_name(t)
    \/ \E t \in T, ok \in BOOLEAN : read_by_name_return(t, ok)
    \/ \E t \in T : write_by_name(t)
    \/ \E t \in T, ok \in BOOLEAN : write_by_name_return(t, ok)
    \/ \E t \in T, name \in V : add_device_notification(t, name)
    \/ \E t \in T, ok \in BOOLEAN, hnotify \in Handles :
          add_device_notification_return(t, ok, hnotify)

\* The steps of the liveness probe run by the caller threads T
ProbeStep(T) ==
    \/ \E t \in T : check_connection(t)
    \/ \E t \in T, ok \in BOOLEAN : check_connection_return(t, ok)

\* The steps of the reconnection loop; a reconnection attempt fails at most
\* `cap` times in a row
ReconnectStep(cap) ==
    \/ \E j \in Jobs : reconnect_async(j)
    \/ \E j \in Jobs : _try_reconnect(j)
    \/ \E j \in Jobs, ok \in BOOLEAN :
          (ok \/ _retry_count < cap) /\ _try_reconnect_open(j, ok)
    \/ \E j \in Jobs, ok \in BOOLEAN :
          (ok \/ _retry_count < cap) /\ _try_reconnect_probe(j, ok)
    \/ \E j \in Jobs : _try_reconnect_schedule(j)

\* The steps of the transport's delivery of notifications
DispatchStep ==
    \/ \E d \in Dispatchers, hnotify \in Handles, data \in Payloads :
          _device_notification_callback(d, hnotify, data)
    \/ \E d \in Dispatchers : _device_notification_deliver(d)

\* The steps of shutdown
ShutdownStep ==
    \/ \E s \in Stoppers : shutdown(s)
    \/ \E s \in Stoppers, ok \in BOOLEAN : shutdown_del_return(s, ok)
    \/ \E s \in Stoppers, ok \in BOOLEAN : shutdown_close_return(s, ok)

\* Every thread of the hub: one caller, the reconnection job and shutdown.
\* The callers exclude one another through the lock, so a second caller
\* only waits where the first one runs.
Next ==
    \/ ObserverStep
    \/ CallerStep({"c1"}, {"v1"})
    \/ ProbeStep({"c1"})
    \/ ReconnectStep(MaxRetry)
    \/ ShutdownStep

Spec == Init /\ [][Next]_vars

\* The callers alone: two threads contending for the lock, on two variables
NextCallers ==
    \/ ObserverStep
    \/ CallerStep(Callers, PlcVars)
    \/ ProbeStep(Callers)

SpecCallers == Init /\ [][NextCallers]_vars

\* The reconnection loop and the liveness probe alone, with a long run of
\* failed attempts
NextBackoff ==
    \/ ObserverStep
    \/ ProbeStep({"c1"})
    \/ ReconnectStep(MaxBackoffRetry)

SpecBackoff == Init /\ [][NextBackoff]_vars

\* The hub without shutdown. The host's event loop runs every pending task
\* when its sleep is over and the executor runs every job handed to it, so
\* the reconnection loop always takes its next step; the callers come and go
\* as they please.
NextLive ==
    \/ ObserverStep
    \/ CallerStep({"c1"}, {"v1"})
    \/ ProbeStep({"c1"})
    \/ ReconnectStep(MaxRetry)

SpecLive == Init /\ [][NextLive]_vars /\ WF_vars(ReconnectStep(MaxRetry))

\* The steps of the shutdown that the unloading of the entry runs right
\* after an earlier shutdown has ended
ShutdownAgainStep ==
    \/ \E s \in Unloaders : last.op = "shutdown" /\ shutdown(s)
    \/ \E s \in Unloaders, ok \in BOOLEAN : shutdown_del_return(s, ok)
    \/ \E s \in Unloaders, ok \in BOOLEAN : shutdown_close_return(s, ok)

\* shutdown called at the stop of the host and again at the unloading of
\* the entry, the entities still calling the hub
NextTwice ==
    \/ ObserverStep
    \/ CallerStep({"c1"}, {"v1"})
    \/ (\A s \in Unloaders : pc[s] = "idle") /\ ShutdownStep
    \/ ShutdownAgainStep

SpecTwice == Init /\ [][NextTwice]_vars

\* The entities subscribing and the transport delivering samples
NextDispatch ==
    \/ CallerStep({"c1"}, PlcVars)
    \/ ProbeStep({"c1"})
    \/ DispatchStep

SpecDispatch == Init /\ [][NextDispatch]_vars

\* The connection lost and recovered while the transport delivers samples:
\* the callers, the liveness probe, the reconnection loop and the dispatcher
NextRecover ==
    \/ CallerStep({"c1"}, {"v1"})
    \/ ProbeStep({"c1"})
    \/ ReconnectStep(MaxRetry)
    \/ DispatchStep

SpecRecover == Init /\ [][NextRecover]_vars

\* A hub right after construction with the observer of one entity
\* registered. iter is what that observer has seen: heard is the value of
\* the broadcast before (none yet: the empty sequence), opened whether the
\* initial open succeeded.
InitHeard ==
    /\ \E hass \in BOOLEAN, open_ok \in BOOLEAN :
          /\ _hass = hass
          /\ _connected = open_ok
          /\ _reconnect_task = (~open_ok /\ hass)
          /\ pending = IF ~open_ok /\ hass THEN 1 ELSE 0
          /\ iter = [heard |-> <<>>, opened |-> open_ok]
    /\ _retry_count = 0
    /\ _unavailable_logged = FALSE
    /\ _connection_callbacks = <<"o2">>
    /\ _notification_items = <<>>
    /\ _lock = "free"
    /\ pc = [t \in Threads |-> "idle"]
    /\ arg = [t \in Callers |-> "none"]
    /\ ncalls = [t \in Threads |-> 0]
    /\ last = NoEvent

\* callback(connected) of the observer, called by _notify_connection_state
connection_callback ==
    /\ last.sent # <<>>
    /\ iter' = [iter EXCEPT !.heard = <<last.sent[1][2]>>]
    /\ last' = NoEvent
    /\ UNCHANGED <<_hass, _connected, _retry_count, _unavailable_logged,
                   _reconnect_task, pending, _connection_callbacks,
                   _notification_items, _lock, pc, arg, ncalls>>

\* The hub and its observer: a broadcast is heard before the hub goes on
NextHeard ==
    \/ last.sent = <<>> /\ CallerStep({"c1"}, {"v1"})
    \/ last.sent = <<>> /\ ProbeStep({"c1"})
    \/ last.sent = <<>> /\ ReconnectStep(MaxRetry)
    \/ connection_callback

SpecHeard == InitHeard /\ [][NextHeard]_vars

----------------------------------------------------------------------------
(* __init__.py: async_setup_entry, up to the point where the hub is stored.
   pc[u] is the position of the coroutine u; the executor job it awaits is
   the check_connection of the caller thread c1. *)

Setups == {"u1"}

\* `ads_hub = AdsHub(client, hass)` has run
InitSetup ==
    /\ \E open_ok \in BOOLEAN : AdsHub__init__(TRUE, open_ok)
    /\ pc = [t \in Threads \cup Setups |-> IF t \in Setups THEN "se_call" ELSE "idle"]
    /\ arg = [t \in Callers \cup Dispatchers |->
                 IF t \in Callers THEN "none" ELSE NoNotification]
    /\ ncalls = [t \in Threads \cup Setups |-> 0]
    /\ iter = IterIdle

\* `if not ads_hub.connected:` then check_connection is handed to the
\* executor, else the hub is stored
async_setup_entry(u) ==
    /\ pc[u] = "se_call"
    /\ IF _connected
       THEN /\ pc' = [pc EXCEPT ![u] = "se_ready"]
            /\ last' = Event("async_setup_entry", TRUE, "ok", 0, <<>>, "True", 0)
       ELSE /\ pc' = [pc EXCEPT ![u] = "se_check"]
            /\ last' = NoEvent
    /\ UNCHANGED <<_hass, _connected, _retry_count, _unavailable_logged,
                   _reconnect_task, pending, _connection_callbacks,
                   _notification_items, _lock, arg, ncalls, iter>>

\* the executor job has returned: `if not connected: raise
\* ConfigEntryNotReady`, else the hub is stored
async_setup_entry_checked(u) ==
    /\ pc[u] = "se_check"
    /\ last.op = "check_connection"
    /\ IF last.ret = "True"
       THEN /\ pc' = [pc EXCEPT ![u] = "se_ready"]
            /\ last' = Event("async_setup_entry", _connected, "ok", 0, <<>>,
                             "True", 0)
       ELSE /\ pc' = [pc EXCEPT ![u] = "se_not_ready"]
            /\ last' = Event("async_setup_entry", _connected,
                             "ConfigEntryNotReady", 0, <<>>, "none", 0)
    /\ UNCHANGED <<_hass, _connected, _retry_count, _unavailable_logged,
                   _reconnect_task, pending, _connection_callbacks,
                   _notification_items, _lock, arg, ncalls, iter>>

\* the coroutine is waiting for its executor job
Awaiting(u) == pc[u] = "se_check" /\ last.op # "check_connection"

\* the coroutine is resumed with the result of its executor job
Resumable(u) == pc[u] = "se_check" /\ last.op = "check_connection"

\* The setup of the entry while the hub's reconnection loop runs; the
\* entities use the hub once it is stored
NextSetup ==
    \/ \E u \in Setups : async_setup_entry(u)
    \/ \E u \in Setups : Awaiting(u) /\ check_connection("c1")
    \/ \E u \in Setups, ok \in BOOLEAN :
          Awaiting(u) /\ check_connection_return("c1", ok)
    \/ \E u \in Setups : async_setup_entry_checked(u)
    \/ (\A u \in Setups : ~Resumable(u)) /\ ReconnectStep(MaxRetry)
    \/ (\A u \in Setups : pc[u] = "se_ready") /\ CallerStep({"c1"}, {"v1"})
    \/ (\A u \in Setups : pc[u] = "se_ready") /\ ProbeStep({"c1"})

SpecSetup == InitSetup /\ [][NextSetup]_vars

\* The decoder on its own: a connected hub on which one variable of any type
\* is subscribed under handle 1, at the point where the dispatcher has looked
\* up the item for a sample the transport delivered and is to decode it
InitDecoder ==
    /\ _hass = FALSE
    /\ _connected = TRUE
    /\ _retry_count = 0
    /\ _unavailable_logged = FALSE
    /\ _reconnect_task = FALSE
    /\ pending = 0
    /\ _connection_callbacks = <<>>
    /\ \E datatype \in PlcTypes :
          _notification_items =
             [h \in {1} |-> NotificationItem(1, 1, "v1", datatype, "v1")]
    /\ _lock = "free"
    /\ pc = [t \in Threads |-> IF t \in Dispatchers THEN "nt_call" ELSE "idle"]
    /\ \E data \in Samples :
          arg = [t \in Callers \cup Dispatchers |->
                    IF t \in Callers
                    THEN "none"
                    ELSE [item |-> _notification_items[1], data |-> data]]
    /\ ncalls = [t \in Threads |-> 0]
    /\ iter = IterIdle
    /\ last = Event("add_device_notification", TRUE, "ok", 1, <<>>, "None", 0)

NextDecoder == \E d \in Dispatchers : _device_notification_deliver(d)

SpecDecoder == InitDecoder /\ [][NextDecoder]_vars

----------------------------------------------------------------------------
(* Properties *)

\* The hub's connection state, as the observers and the callers know it
HubState == <<_connected, _retry_count, _reconnect_task, pending,
              _notification_items, _connection_callbacks>>

\* `sent` calls every registered observer exactly once, with `value`, and
\* makes no other call
InvokedOnce(sent, value) ==
    /\ Len(sent) = Len(_connection_callbacks)
    /\ \A i \in 1..Len(_connection_callbacks) :
          Cardinality({k \in 1..Len(sent) :
                          sent[k] = <<_connection_callbacks[i], value>>}) = 1

\* C1: read_by_name and write_by_name called while the hub is disconnected
\* return None, make no transport call, notify no observer and leave
\* connected, the retry count, the pending reconnection task, the registry
\* and the observers as they were.
C1_FailFast ==
    [][\A t \in Callers :
          ((read_by_name(t) \/ write_by_name(t)) /\ ~_connected)
          => /\ last'.ret = "None"
             /\ last'.calls = 0
             /\ last'.sent = <<>>
             /\ pc'[t] = "idle"
             /\ ncalls'[t] = 0
             /\ _lock' = "free"
             /\ UNCHANGED HubState]_vars

C1_Witness ==
    /\ last.op \in {"read_by_name", "write_by_name"}
    /\ last.outcome = "not_connected"
    /\ ~_connected
    /\ pending > 0
    /\ _connection_callbacks # <<>>
    /\ DOMAIN _notification_items # {}

\* C2: when read_by_name, write_by_name or add_device_notification runs while
\* connected and its transport call raises, it has made exactly one transport
\* call, returns None, leaves the hub disconnected and, with a scheduler, a
\* reconnection task is pending.
C2_ErrorDisconnects ==
    (last.op \in {"read_by_name", "write_by_name", "add_device_notification"}
        /\ last.outcome = "error")
    => /\ last.was = TRUE
       /\ last.calls = 1
       /\ last.ret = "None"
       /\ ~_connected
       /\ _hass => (_reconnect_task /\ pending >= 1)

C2_Witness ==
    /\ last.op = "add_device_notification"
    /\ last.outcome = "error"
    /\ _hass
    /\ last.delay = 1

\* C3: a transport error in read_by_name, write_by_name or
\* add_device_notification that disconnects the hub calls every registered
\* observer with false exactly once.
C3_ErrorNotifiesObservers ==
    (last.op \in {"read_by_name", "write_by_name", "add_device_notification"}
        /\ last.outcome = "error")
    => InvokedOnce(last.sent, FALSE)

\* C4: the delay of every scheduled reconnection is
\* table[min(retryCount, 6)] with table = [1, 2, 4, 8, 16, 32, 60], so it is
\* 60 for every retryCount >= 6.
C4_BackoffDelay ==
    /\ [][pending' > pending
            => /\ last'.delay = <<1, 2, 4, 8, 16, 32, 60>>[Min(_retry_count, 6) + 1]
               /\ _retry_count >= 6 => last'.delay = 60
               /\ UNCHANGED _retry_count]_vars
    /\ [](last.delay \in {0, 1, 2, 4, 8, 16, 32, 60})

C4_Witness ==
    /\ last.delay = 60
    /\ _retry_count > 6

\* C5: at most one reconnection task is pending at any time.
C5_AtMostOnePending == pending <= 1

\* C6: every transport call is made by the thread that holds the lock, so no
\* two transport calls run at the same time.
C6_TransportUnderLock ==
    /\ \A t \in Threads : InTransport(t) => _lock = t
    /\ Cardinality({t \in Threads : InTransport(t)}) <= 1

\* C7: check_connection whose probe succeeds returns true; when the hub was
\* disconnected it sets connected, resets the retry count and calls every
\* observer with true exactly once; when the hub was connected it notifies
\* nobody and changes no state.
C7_ProbeSucceeds ==
    [][\A t \in Callers :
          check_connection_return(t, TRUE)
          => /\ last'.ret = "True"
             /\ last'.calls = 1
             /\ ~_connected => /\ _connected'
                               /\ _retry_count' = 0
                               /\ InvokedOnce(last'.sent, TRUE)
             /\ _connected => /\ last'.sent = <<>>
                              /\ UNCHANGED HubState
                              /\ UNCHANGED _unavailable_logged]_vars

C7_Witness ==
    /\ last.op = "check_connection"
    /\ last.outcome = "ok"
    /\ last.was = FALSE
    /\ Len(last.sent) = 2
    /\ _connected

C9_OneFalsePerLoss ==
    [][/\ (~_connected /\ ~_connected')
          => \A k \in 1..Len(last'.sent) : last'.sent[k][2] # FALSE
       /\ (_connected /\ ~_connected' /\ last'.op # "shutdown")
          => InvokedOnce(last'.sent, FALSE)]_vars

\* C10: a hub created with a scheduler whose initial open fails is
\* disconnected with retry count 0 and one reconnection task of delay 1; the
\* reconnection attempt that succeeds leaves the hub connected with retry
\* count 0 and calls every observer with true exactly once.
C10_FailedOpenRecovers ==
    /\ (last.op = "__init__" /\ last.outcome = "error" /\ _hass)
       => /\ ~_connected
          /\ _retry_count = 0
          /\ pending = 1
          /\ _reconnect_task
          /\ last.delay = 1
    /\ (last.op = "_try_reconnect" /\ last.outcome = "ok")
       => /\ _connected
          /\ _retry_count = 0
          /\ last.calls = 2
          /\ InvokedOnce(last.sent, TRUE)

C10_Witness ==
    /\ last.op = "_try_reconnect"
    /\ last.outcome = "ok"
    /\ Len(last.sent) = 2
    /\ pending = 0

\* C11: every failed reconnection attempt increases the retry count by
\* exactly 1 and schedules exactly one next attempt, whose delay is
\* table[min(retryCount, 6)] of the incremented count (1, 2, 4, 8, 16, 32,
\* 60, 60, ... over consecutive failures); a successful attempt resets the
\* retry count to 0.
C11_FailedAttemptBacksOff ==
    [][\A j \in Jobs :
          /\ (_try_reconnect_open(j, FALSE) \/ _try_reconnect_probe(j, FALSE))
             => _retry_count' = _retry_count + 1
          /\ (_hass /\ last'.op = "_try_reconnect" /\ last'.outcome = "error")
             => /\ pending' = pending + 1
                /\ _retry_count' >= 1
                /\ last'.delay =
                      <<1, 2, 4, 8, 16, 32, 60>>[Min(_retry_count', 6) + 1]
          /\ _try_reconnect_probe(j, TRUE) => _retry_count' = 0]_vars

\* The step just taken reported a failed open() or read_state()
OpenOrProbeFailed ==
    /\ last.op \in {"check_connection", "_try_reconnect"}
    /\ last.outcome = "error"

\* C12: with a scheduler and no shutdown, when from some point on every
\* open and every probe of the transport succeeds, the hub becomes connected
\* (the reconnection loop retries until it succeeds), the scheduler running
\* every pending task.
C12_EventuallyReconnects ==
    _hass => (<>[](~OpenOrProbeFailed) => []<>_connected)

C12_Witness ==
    /\ _hass
    /\ _connected
    /\ last.op = "_try_reconnect"
    /\ last.outcome = "ok"
    /\ last.sent = <<>>
    /\ ~_reconnect_task

\* C13: when shutdown returns the hub is disconnected, whatever the
\* transport answered to the unregistrations and to close().
C13_ShutdownDisconnects ==
    (last.op = "shutdown" /\ last.outcome \in {"ok", "error"}) => ~_connected

\* C14: every call of shutdown asks the transport to unregister each
\* descriptor of the registry exactly once and then closes the session,
\* whether or not an unregistration failed: it ends with close() attempted,
\* after one transport call per descriptor that was registered at the call.
C14_ShutdownUnregistersAll ==
    [][\A s \in Stoppers :
          (pc[s] \in {"sd_del", "sd_close"} /\ pc'[s] = "idle")
          => /\ last'.op = "shutdown"
             /\ last'.outcome \in {"ok", "error"}
             /\ last'.calls = iter.size + 1]_vars

\* C15: shutdown is terminal. In the step that follows the return of
\* shutdown, whoever takes it (check_connection, a reconnection job that had
\* started, a task that still sleeps), connected does not become true, no
\* reconnection task is created or fires, and no open() of the transport
\* starts.
C15_ShutdownIsTerminal ==
    [][(last.op = "shutdown" /\ last.outcome \in {"ok", "error"})
          => /\ _connected' => _connected
             /\ pending' = pending
             /\ \A j \in Jobs : pc'[j] = "rc_open" => pc[j] = "rc_open"]_vars

\* C16: of two calls of shutdown in succession the second does not raise,
\* and the first has closed the session when it ends.
C16_ShutdownTwice ==
    [][\A s \in Unloaders :
          /\ shutdown(s) => last.outcome \in {"ok", "error"}
          /\ (pc[s] # "idle" /\ pc'[s] = "idle")
             => last'.outcome \in {"ok", "error"}]_vars

\* C17: a notification for a handle that has no descriptor does not raise,
\* calls no subscriber and leaves connected, the retry count, the pending
\* reconnection task and the registry as they were.
C17_UnknownHandleDropped ==
    [][\A d \in Dispatchers, hnotify \in Handles, data \in Payloads :
          (/\ _device_notification_callback(d, hnotify, data)
           /\ hnotify \notin DOMAIN _notification_items)
          => /\ last'.outcome = "unknown"
             /\ last'.ret = "None"
             /\ last'.sent = <<>>
             /\ pc'[d] = "idle"
             /\ _lock' = "free"
             /\ UNCHANGED HubState]_vars

C17_Witness ==
    /\ last.op = "_device_notification_callback"
    /\ last.outcome = "unknown"
    /\ DOMAIN _notification_items = {1}
    /\ _connected

\* C18: a notification for a registered handle, carrying a sample of the
\* width of the descriptor's type, calls the callback of that descriptor
\* exactly once, with the descriptor's name and the sample decoded by its
\* type, and calls no other callback; for BOOL the byte 1 gives true and the
\* byte 0 gives false, for INT the two bytes give the little-endian signed
\* number.
C18_CallbackGetsDecodedValue ==
    [][\A d \in Dispatchers :
          /\ \A hnotify \in DOMAIN _notification_items, data \in Payloads :
                _device_notification_callback(d, hnotify, data)
                => /\ arg'[d].item = _notification_items[hnotify]
                   /\ arg'[d].data = data
                   /\ last'.sent = <<>>
          /\ LET item == arg[d].item
                 data == arg[d].data
                 width == IF item.plc_datatype = "BOOL" THEN 1 ELSE 2
             IN  (_device_notification_deliver(d) /\ Len(data) = width)
                 => /\ last'.outcome = "ok"
                    /\ Len(last'.sent) = 1
                    /\ last'.sent[1][1] = item.callback
                    /\ last'.sent[1][2] = item.name
                    /\ item.plc_datatype = "BOOL"
                       => /\ data = <<1>> => last'.sent[1][3] = TRUE
                          /\ data = <<0>> => last'.sent[1][3] = FALSE
                          /\ last'.sent[1][3] = (data[1] # 0)
                    /\ item.plc_datatype = "INT"
                       => /\ last'.sent[1][3] \in (0 - 32768)..32767
                          /\ (last'.sent[1][3] - data[1] - 256 * data[2])
                                % 65536 = 0]_vars

C18_Witness ==
    /\ last.op = "_device_notification_callback"
    /\ last.outcome = "ok"
    /\ last.sent = <<<<"v1", "v1", TRUE>>>>
    /\ Cardinality(DOMAIN _notification_items) = 2

\* C19: add_device_notification on a connected hub whose transport call
\* succeeds stores one descriptor (handle, user handle, name, type,
\* callback) under the handle the transport assigned and touches no other
\* descriptor; on a disconnected hub it makes no transport call and leaves
\* the registry as it was; when the transport call raises it stores nothing.
C19_SubscribeStoresDescriptor ==
    [][\A t \in Callers :
          /\ \A hnotify \in Handles :
                add_device_notification_return(t, TRUE, hnotify)
                => /\ DOMAIN _notification_items' =
                         (DOMAIN _notification_items) \cup {hnotify}
                   /\ _notification_items'[hnotify] =
                         [hnotify |-> hnotify, huser |-> hnotify,
                          name |-> arg[t],
                          plc_datatype |-> plc_datatype(arg[t]),
                          callback |-> arg[t]]
                   /\ \A h \in (DOMAIN _notification_items) \ {hnotify} :
                         _notification_items'[h] = _notification_items[h]
                   /\ last'.calls = 1
          /\ \A hnotify \in Handles :
                add_device_notification_return(t, FALSE, hnotify)
                => /\ UNCHANGED _notification_items
                   /\ last'.calls = 1
          /\ \A name \in PlcVars :
                (add_device_notification(t, name) /\ ~_connected)
                => /\ UNCHANGED _notification_items
                   /\ last'.calls = 0
                   /\ pc'[t] = "idle"
                   /\ _lock' = "free"]_vars

C19_Witness ==
    /\ last.op = "add_device_notification"
    /\ last.outcome = "ok"
    /\ last.calls = 1
    /\ Cardinality(DOMAIN _notification_items) = 2
    /\ \E h \in DOMAIN _notification_items :
          _notification_items[h].name = "v2"

\* C20: when check_connection or a reconnection attempt notifies the
\* observers and one of them raises, the observers after it are still
\* called, in order and with the same value, and the operation ends as it
\* does without the exception: it returns, and connected, the retry count
\* and the reconnection task are as the edge demands.
C20_ObserverFailureIsolated ==
    (/\ last.op \in {"check_connection", "_try_reconnect"}
     /\ last.sent # <<>>
     /\ \E i \in 1..Len(_connection_callbacks) :
           _connection_callbacks[i] \in Raising)
    => /\ Len(last.sent) = Len(_connection_callbacks)
       /\ \A i \in 1..Len(last.sent) :
             last.sent[i] = <<_connection_callbacks[i], last.sent[1][2]>>
       /\ last.ret \in {"True", "False", "None"}
       /\ _connected = last.sent[1][2]
       /\ last.sent[1][2] => _retry_count = 0
       /\ (~last.sent[1][2] /\ _hass) => (_reconnect_task /\ pending >= 1)

C20_Witness ==
    /\ last.op = "check_connection"
    /\ last.sent = <<<<"o1", FALSE>>, <<"o2", FALSE>>>>
    /\ "o1" \in Raising
    /\ last.ret = "False"
    /\ ~_connected

\* C21: for every type and every sample, also one whose length is not the
\* width of the type, the decoding gives a value and does not raise, so the
\* callback of a registered handle is called.
C21_DecodingIsTotal ==
    (last.op = "_device_notification_callback" /\ last.outcome # "unknown")
    => /\ last.outcome = "ok"
       /\ Len(last.sent) = 1

\* The integer types of C22: signedness and width in bytes as the claim
\* gives them
SignedTags == {"SINT", "INT", "DINT", "TIME", "DATE", "DT", "TOD"}
UnsignedTags == {"USINT", "UINT", "UDINT", "WORD", "DWORD"}
WidthOf(tag) ==
    IF tag \in {"SINT", "USINT"} THEN 1
    ELSE IF tag \in {"INT", "UINT", "WORD"} THEN 2
    ELSE 4
IsWide(tag) == tag \in UnsignedTags /\ WidthOf(tag) = 4

\* value is an integer of the tag: two's complement range for the signed
\* tags, 0 .. 2^(8 * width) - 1 for the unsigned ones
InRange(tag, value) ==
    IF IsWide(tag)
    THEN value.high \in 0..65535 /\ value.low \in 0..65535
    ELSE IF WidthOf(tag) = 4
    THEN value >= 0 - 2147483647 - 1 /\ value <= 2147483647
    ELSE IF tag \in SignedTags
    THEN /\ value >= 0 - 2 ^ (8 * WidthOf(tag) - 1)
         /\ value < 2 ^ (8 * WidthOf(tag) - 1)
    ELSE value \in 0..(2 ^ (8 * WidthOf(tag)) - 1)

\* the little-endian encoding of an integer of the tag, two's complement
to_bytes(tag, value) ==
    IF IsWide(tag)
    THEN <<value.low % 256, value.low \div 256,
           value.high % 256, value.high \div 256>>
    ELSE [i \in 1..WidthOf(tag) |-> (value \div (256 ^ (i - 1))) % 256]

\* integers to encode and decode: the ends of the ranges and their neighbours
RoundTripInts(tag) ==
    IF IsWide(tag)
    THEN {Wide(0, 0), Wide(0, 1), Wide(0, 65535), Wide(1, 0),
          Wide(32767, 65535), Wide(32768, 0), Wide(65535, 65535)}
    ELSE {value \in {0 - 2147483647 - 1, 0 - 2147483647, 0 - 32769,
                     0 - 32768, 0 - 129, 0 - 128, 0 - 1, 0, 1, 127, 128,
                     255, 256, 32767, 32768, 65535, 65536, 2147483647} :
             InRange(tag, value)}

\* C22: for the 8, 16 and 32 bit integer types a sample of the width of the
\* type is decoded to its little-endian integer with the signedness of the
\* type (two's complement for SINT, INT, DINT and the four time types,
\* unsigned for USINT, UINT, UDINT, WORD, DWORD): the value is in the range
\* of the type and its encoding at that width is the sample; and an integer
\* of the range, encoded at the width and decoded, is the same integer.
C22_IntegersDecodeLittleEndian ==
    [][\A d \in Dispatchers :
          LET tag == arg[d].item.plc_datatype
              data == arg[d].data
          IN  (/\ _device_notification_deliver(d)
               /\ tag \in SignedTags \cup UnsignedTags
               /\ Len(data) = WidthOf(tag))
              => /\ last'.outcome = "ok"
                 /\ Len(last'.sent) = 1
                 /\ InRange(tag, last'.sent[1][3])
                 /\ to_bytes(tag, last'.sent[1][3]) = data
                 /\ \A value \in RoundTripInts(tag) :
                       /\ ~unpack_raises(tag, to_bytes(tag, value))
                       /\ unpack(tag, to_bytes(tag, value)) = value]_vars

\* the DWORD sample ff ff ff ff was decoded to 4294967295
C22_Witness ==
    /\ last.op = "_device_notification_callback"
    /\ last.outcome = "ok"
    /\ _notification_items[1].plc_datatype = "DWORD"
    /\ last.sent[1][3] = Wide(65535, 65535)

\* the place of the first zero byte of a buffer, or the place after its end
FirstZero(data) ==
    LET zeros == {i \in 1..Len(data) : data[i] = 0}
    IN  IF zeros = {}
        THEN Len(data) + 1
        ELSE CHOOSE i \in zeros : \A j \in zeros : i <= j

\* C23: for the string type the decoded value is the text of the bytes
\* before the first zero byte, or of the whole buffer when it has no zero
\* byte; "OK" followed by three zero bytes gives "OK", and a buffer that
\* starts with a zero byte gives the empty text.
C23_StringEndsAtZero ==
    [][\A d \in Dispatchers :
          LET data == arg[d].data
          IN  (/\ _device_notification_deliver(d)
               /\ arg[d].item.plc_datatype = "STRING")
              => /\ last'.outcome = "ok"
                 /\ Len(last'.sent) = 1
                 /\ last'.sent[1][3] =
                       utf8_ignore(SubSeq(data, 1, FirstZero(data) - 1))
                 /\ (\A i \in 1..Len(data) : data[i] \in 1..127)
                    => last'.sent[1][3] = data
                 /\ data = <<79, 75, 0, 0, 0>> => last'.sent[1][3] = <<79, 75>>
                 /\ (data # <<>> /\ data[1] = 0) => last'.sent[1][3] = <<>>]_vars

\* a string sample was decoded to "OK"
C23_Witness ==
    /\ last.op = "_device_notification_callback"
    /\ last.outcome = "ok"
    /\ _notification_items[1].plc_datatype = "STRING"
    /\ last.sent[1][3] = <<79, 75>>

\* the types the decoder has a rule for
SupportedTags ==
    {"BOOL", "STRING", "BYTE", "REAL", "LREAL"} \cup SignedTags \cup UnsignedTags

\* C24: for an item whose type is none of the supported ones the dispatch
\* does not fail and calls the item's callback exactly once, with the item's
\* name and the bytes of the sample unchanged.
C24_UnsupportedTypeGetsRawBytes ==
    [][\A d \in Dispatchers :
          (/\ _device_notification_deliver(d)
           /\ arg[d].item.plc_datatype \notin SupportedTags)
          => /\ last'.outcome = "ok"
             /\ last'.ret = "None"
             /\ last'.sent = <<<<arg[d].item.callback, arg[d].item.name,
                                 arg[d].data>>>>]_vars

\* the sample ff 00 of a LINT variable was handed on as it came
C24_Witness ==
    /\ last.op = "_device_notification_callback"
    /\ last.outcome = "ok"
    /\ _notification_items[1].plc_datatype = "LINT"
    /\ last.sent = <<<<"v1", "v1", <<255, 0>>>>>>

\* the part of NetIdParts that is the numeral of an integer of 0..255
Octets == {<<"2", "5", "5">>}

\* text is n octets with dots between them
RECURSIVE OctetsWithDots(_, _)
OctetsWithDots(text, n) ==
    \E octet \in Octets :
       /\ Len(text) >= Len(octet)
       /\ SubSeq(text, 1, Len(octet)) = octet
       /\ LET rest == SubSeq(text, Len(octet) + 1, Len(text))
          IN  IF n = 1
              THEN rest = <<>>
              ELSE /\ rest # <<>>
                   /\ Head(rest) = "."
                   /\ OctetsWithDots(Tail(rest), n - 1)

\* C25: validate_net_id accepts exactly the texts of six dot-separated parts
\* that each are read as an integer of 0..255, and validate_connection, when
\* validate_net_id rejects the address, returns the error invalid_net_id and
\* has made no call of the transport: no connection was created or opened.
C25_NetIdValidatedFirst ==
    [][\A f \in Flows :
          LET six == OctetsWithDots(arg[f].device, 6)
          IN  (pc[f] = "vc_call" /\ last'.op = "validate_connection")
              => /\ validate_net_id(arg[f].device) <=> six
                 /\ ~six => /\ last'.ret = "invalid_net_id"
                            /\ last'.calls = 0
                 /\ six => /\ last'.ret # "invalid_net_id"
                           /\ last'.calls >= 2
                 /\ validate_net_id(<<"0", ".", "0", ".", "0", ".", "0",
                                         ".", "0", ".", "0">>)
                 /\ validate_net_id(<<"1", "0", ".", "0", ".", "2", "5",
                                      "5", ".", "9", "9", ".", "1", ".",
                                      "1">>)
                 /\ ~validate_net_id(<<"1", ".", "2", ".", "3", ".", "4",
                                       ".", "5", ".", "x">>)]_vars

\* the address 255.255.255.255.255.256 was refused
C25_Witness ==
    /\ last.op = "validate_connection"
    /\ last.ret = "invalid_net_id"
    /\ last.calls = 0
    /\ arg["f1"].device =
          <<"2", "5", "5", ".", "2", "5", "5", ".", "2", "5", "5", ".",
            "2", "5", "5", ".", "2", "5", "5", ".", "2", "5", "6">>

C27_ShutdownEmptiesRegistry ==
    last.op = "shutdown" => DOMAIN _notification_items = {}

\* C28: shutdown called while a reconnection task is pending cancels that
\* task before its first unregister or close call, so that from then on no
\* task is pending whose probe could run; called with no task pending the
\* cancellation changes nothing and does not fail.
C28_ShutdownCancelsTask ==
    [][\A s \in Stoppers :
          /\ (shutdown(s) /\ _reconnect_task)
             => /\ pending' = 0
                /\ ~_reconnect_task'
                /\ ncalls'[s] = 1
                /\ pc'[s] \in {"sd_del", "sd_close"}
          /\ (shutdown(s) /\ ~_reconnect_task)
             => /\ UNCHANGED <<pending, _reconnect_task>>
                /\ pc'[s] \in {"sd_del", "sd_close"}]_vars

\* C29: during a dispatch the lock is held for the lookup in the registry
\* only: the lookup waits for the lock and has released it when it is done,
\* and the decoding and the callback run without the lock, so that the
\* other threads' operations take the lock meanwhile.
C29_LockOnlyForLookup ==
    /\ [](\A d \in Dispatchers : _lock # d)
    /\ [][\A d \in Dispatchers :
             /\ \A hnotify \in Handles, data \in Payloads :
                   _device_notification_callback(d, hnotify, data)
                   => _lock = "free" /\ _lock' = "free"
             /\ _device_notification_deliver(d) => UNCHANGED _lock
             /\ pc[d] = "nt_call"
                => \A t \in Callers :
                      (pc[t] = "idle" /\ _lock = "free" /\ _connected)
                      => ENABLED read_by_name(t)]_vars

\* a sample was decoded and handed to its callback while a caller held the
\* lock for its transport call
C29_Witness ==
    /\ last.op = "_device_notification_callback"
    /\ last.outcome = "ok"
    /\ _lock = "c1"
    /\ pc["c1"] = "read_io"

\* C30: while observers are added and removed, also during a fan-out, an
\* observer that stays registered is called exactly once by every fan-out:
\* it is neither skipped nor called twice.
C30_FanOutSkipsNobody ==
    last.op = "_notify_connection_state"
    => \A o \in Staying :
          Cardinality({k \in 1..Len(last.sent) : last.sent[k][1] = o}) = 1

\* C31: no transition of the connection state (an error of read, write or
\* subscribe, a check_connection that fails or succeeds, a reconnection
\* attempt that fails or succeeds) adds, removes or changes a descriptor of
\* the registry, and a sample for a registered handle is handed to the
\* descriptor's callback, when it decodes, whatever the connection went
\* through.
C31_RegistrySurvivesReconnect ==
    [][/\ (\/ _connected' # _connected
           \/ last'.op \in {"check_connection", "_try_reconnect"}
           \/ last'.outcome \in {"error", "not_connected"}
           \/ \E j \in Jobs : pc[j] # pc'[j])
          => UNCHANGED _notification_items
       /\ \A h \in DOMAIN _notification_items :
             /\ h \in DOMAIN _notification_items'
             /\ _notification_items'[h] # _notification_items[h]
                => /\ last'.op = "add_device_notification"
                   /\ last'.outcome = "ok"
       /\ \A d \in Dispatchers :
             /\ (pc[d] = "idle" /\ pc'[d] = "nt_call")
                => /\ arg'[d].item.hnotify \in DOMAIN _notification_items
                   /\ arg'[d].item = _notification_items[arg'[d].item.hnotify]
             /\ (pc[d] = "nt_call" /\ pc'[d] = "idle"
                   /\ ~unpack_raises(arg[d].item.plc_datatype, arg[d].data))
                => /\ last'.op = "_device_notification_callback"
                   /\ last'.outcome = "ok"
                   /\ Len(last'.sent) = 1
                   /\ last'.sent[1][1] = arg[d].item.callback]_vars

\* a reconnection attempt brought the connection back with a descriptor,
\* registered before the loss, still in the registry
C31_Witness ==
    /\ last.op = "_try_reconnect"
    /\ last.outcome = "ok"
    /\ _connected
    /\ 1 \in DOMAIN _notification_items
    /\ _notification_items[1].name = "v1"

\* C32: the values broadcast to the observers alternate: a broadcast never
\* carries the value of the broadcast before it, and a true that no
\* broadcast came before is the recovery from a failed initial open.
C32_BroadcastsAlternate ==
    last.sent # <<>>
    => /\ iter.heard # <<last.sent[1][2]>>
       /\ (last.sent[1][2] /\ iter.heard = <<>>) => ~iter.opened

\* C33: on a hub with a scheduler that is not shut down, whenever the hub is
\* disconnected and none of its operations is running, a reconnection task
\* is pending.
C33_DisconnectedHasRetryPending ==
    (_hass /\ ~_connected /\ \A t \in Threads : pc[t] = "idle")
    => pending > 0

\* after a failed reconnection attempt the hub rests disconnected with the
\* next attempt scheduled
C33_Witness ==
    /\ _hass
    /\ ~_connected
    /\ \A t \in Threads : pc[t] = "idle"
    /\ last.op = "_try_reconnect"
    /\ last.outcome = "error"
    /\ _retry_count >= 1
    /\ pending = 1

\* C34: whenever the hub is connected and none of its operations is running
\* the retry count is 0, so that the first reconnection scheduled after the
\* loss of an established connection has the delay of 1 second: the task the
\* losing step creates, or the one the reconnection job that lost the
\* connection is about to create.
C34_ConnectedHasRetryZero ==
    [][/\ (_connected' /\ \A t \in Threads : pc'[t] = "idle")
          => _retry_count' = 0
       /\ (_hass /\ _connected /\ ~_connected' /\ last'.op # "shutdown")
          => /\ pending' > pending => last'.delay = 1
             /\ \A j \in Jobs :
                   pc'[j] = "rc_sched" => retry_interval(_retry_count') = 1]_vars

\* C35: a notification that the transport delivers for a handle it has just
\* assigned, while add_device_notification is still storing the descriptor,
\* is not dropped as an unknown handle: no lookup happens between the
\* subscribe call and the insertion, and the lookup finds the descriptor.
C35_EarlyNotificationNotDropped ==
    /\ [](last.op = "_device_notification_callback"
          => last.outcome # "unknown")
    /\ [][\A d \in Dispatchers :
             (pc[d] = "nt_wait" /\ pc'[d] # "nt_wait")
             => /\ \A t \in Callers : pc[t] # "sub_io"
                /\ pc'[d] = "nt_call"
                /\ arg'[d].item = _notification_items[arg[d].item.hnotify]]_vars

\* the notification of handle 1 has arrived and waits for the lock, which
\* the caller holds whose subscribe call handle 1 was assigned to
C35_Witness ==
    /\ pc["c1"] = "sub_io"
    /\ _lock = "c1"
    /\ Early("d1")
    /\ arg["d1"].item.hnotify = 1

\* C36: the list that finish saves reflects the edits of the session: when
\* its step returns, an entity added through add_entity and a configure
\* step is in the list of the flow and an entity removed through
\* remove_entity is not; the steps that show a menu or a form leave the list
\* as it is, and finish saves the list.
C36_FinishSavesEdits ==
    [][\A f \in Flows :
          /\ last'.outcome = "added"
             => \E i \in 1..Len(arg'[f]._entities) :
                   arg'[f]._entities[i] = last'.sent[1]
          /\ last'.outcome = "removed"
             => last'.sent[1] \notin entity_ids(arg'[f]._entities)
          /\ (pc[f] # "start" /\ last'.outcome \in {"menu", "form", "entity_exists"})
             => arg'[f]._entities = arg[f]._entities
          /\ last'.outcome = "create_entry"
             => arg'[f].saved = <<arg[f]._entities>>]_vars

\* C37: from a list of pairwise distinct entity ids, the ids of the list of
\* the flow are pairwise distinct after every add, edit and remove step; a
\* new entity is added only under an id that the list does not hold yet, and
\* the rejection of its name with entity_exists leaves the list as it was.
C37_EntityIdsDistinct ==
    /\ [](\A f \in Flows : /\ distinct_ids(arg[f]._entities)
                           /\ arg[f].saved # <<>> => distinct_ids(arg[f].saved[1]))
    /\ [][\A f \in Flows :
             /\ last'.outcome = "added"
                => last'.sent[1].entity_id \notin entity_ids(arg[f]._entities)
             /\ last'.outcome = "entity_exists"
                => /\ arg[f]._entity_index = 0
                   /\ arg'[f]._entities = arg[f]._entities
                   /\ pc'[f] = pc[f]
             /\ (arg[f]._entity_index = 0 /\ pc[f] # pc'[f]
                   /\ \E type \in ENTITY_TYPES : pc[f] = ConfigureStep(type))
                => last'.outcome = "added"]_vars

\* the name entered for a new entity was rejected with entity_exists
C37_Witness ==
    /\ last.outcome = "entity_exists"
    /\ pc["f1"] = "configure_switch"
    /\ Len(arg["f1"]._entities) = 2
    /\ arg["f1"]._entity_index = 0

\* C38: when async_setup_entry has given up with ConfigEntryNotReady, the
\* hub it created has no reconnection task pending and no reconnection
\* attempt of it is running or will run.
C38_GivenUpHubIsQuiet ==
    \A u \in Setups :
       pc[u] = "se_not_ready"
       => /\ pending = 0
          /\ ~_reconnect_task
          /\ \A j \in Jobs : pc[j] = "idle"

====
